---- MODULE Spec2Model ----
(***************************************************************************)
(* Verification model of the fog client agent (youcefouarab/fog_client):   *)
(* the resource ledger (simulator.py), the request-id generator and        *)
(* registry (protocol/settings.py, protocol_orch.py), the provider side of *)
(* the offload protocol (MyProtocolAM.make_reply, _respond_resources,      *)
(* _respond_data) and the consumer side (send_request and the late-DRES    *)
(* path of make_reply), in BROADCAST and in ORCHESTRATOR mode.             *)
(*                                                                         *)
(* Each subsystem has its own specification over the same variables; the   *)
(* variables of the subsystems a specification does not exercise stay at   *)
(* their initial values.                                                   *)
(***************************************************************************)
EXTENDS Integers, FiniteSets, Sequences, TLC

VARIABLES
    \* ---- resource ledger (resources/simulator.py, simulator.py) ----
    reserved,      \* _reserved: [cpu, ram, disk]
    limitPct,      \* RESOURCE_LIMIT in percent (LIMIT = limitPct / 100)
    simOn,         \* SIM_ON
    measured,      \* MEASURES[cpu_free, memory_free, disk_free] (real mode)
    lockHolder,    \* thread holding _reserved_lock, 0 when free
    lpc,           \* ledger client threads: position inside the call
    lcos,          \* ledger client threads: CoS of the request passed
    lok,           \* ledger client threads: outcome of the threshold test
    \* ---- request ids (settings.py gen_req_id, protocol_orch.py) ----
    requests,      \* registry of the consumer: id -> owner or Placeholder
    gpc,           \* send_request threads: position in id generation
    gid,           \* send_request threads: local variable id / req_id
    gclobber,      \* ids whose registry entry was overwritten by an insert
    \* ---- provider side (protocol_bcst.py, protocol_orch.py) ----
    mode,          \* PROTO_SEND_TO: "BCST" or "ORCH"
    isResource,    \* IS_RESOURCE
    pcos,          \* cos_id carried by the packets of each provider request
    pst,           \* _req.state of each provider request ("none": no entry)
    pfreed,        \* _req._freed
    pthread,       \* _req._thread != None
    presult,       \* _req.result != None
    pev,           \* _events[_req_id]: "absent", "clear" or "set"
    rr,            \* _respond_resources threads: [pc, retries, got]
    rd,            \* _respond_data threads: [pc, retries, got]
    preply,        \* packet returned by the last make_reply call
    budget,        \* packets the peers may still send
    nres,          \* successful reserve_resources calls per request
    nfree,         \* free_resources calls per request
    nexec,         \* _respond_data threads started per request
    \* ---- consumer side (send_request, make_reply) ----
    cpc,           \* send_request: position in the function
    hreq_rt,       \* send_request local hreq_rt
    rreq_rt,       \* send_request local rreq_rt
    dreq_rt,       \* send_request local dreq_rt
    hres,          \* send_request local hres: "none" or the host it names
    rres,          \* send_request local rres: [kind, same host as req.host]
    dres,          \* send_request local dres: [kind, same host as req.host]
    attempt_no,    \* req._attempt_no
    req_state,     \* req.state
    req_host,      \* req.host
    req_dres_at,   \* req.dres_at (0: unset)
    req_late,      \* req._late
    att_dres_at,   \* req.attempts[n].dres_at (0: unset)
    cev,           \* _events[req_id] of the consumer
    clock,         \* number of time() values written to dres_at
    inbox,         \* DRES packet make_reply has not handled yet
    dreqCur,       \* host and attempt of the DREQ sent in this attempt
    dreqLate,      \* host and attempt of a DREQ left unanswered
    ret,           \* what send_request returned, and req at that moment
    att_state,     \* req.attempts[n].state ("absent": no such key)
    rin,           \* host whose RRES make_reply has not handled yet
    creply,        \* what the consumer's last make_reply call came to
    \* ---- the agent (manager.py) ----
    mmode,         \* Manager._mode
    mpc,           \* Manager.connect: position in the function
    connected,     \* Manager._connected
    mcode,         \* local _code of connect: the pair last written to console
    console,       \* console.error(code) calls made, per pair
    tries,         \* failed calls of the loop connect is in
    nudp,          \* _udp_connect threads started
    nspec,         \* _update_specs threads started
    upc,           \* _udp_connect: position in the function ("off": not run)
    spc,           \* _update_specs: position in the function
    registered,    \* the orchestrator holds the node this agent added
    ndel,          \* delete_node calls made
    \* ---- a retry loop run with a parsed PROTOCOL_RETRIES ----
    rkind,         \* which of the retry loops runs
    rleft,         \* its counter (retries, hreq_rt, ...), in 1/RetryScale
    rpc,           \* "loop": at the loop test, "done": past the loop
    rsent,         \* packets the loop has sent, modulo 2
    \* ---- MyProtocol.hashret and MyProtocol.answers ----
    aq,            \* the packet Q that was sent
    ap,            \* the packet P that was received
    ares,          \* "none", or whether P was taken as the answer to Q
    \* ---- make_reply on a packet that passed is_request ----
    xpkt,          \* the packet, and what the registries hold for it
    xerr           \* "unset", or the error make_reply raised ("none": none)

ledgerVars == <<reserved, limitPct, simOn, measured>>
lthreadVars == <<lockHolder, lpc, lcos, lok>>
idVars == <<requests, gpc, gid, gclobber>>
provCfg == <<mode, isResource, pcos>>
provVars == <<pst, pfreed, pthread, presult, pev, rr, rd, preply, budget,
              nres, nfree, nexec>>

cLocals == <<hreq_rt, rreq_rt, dreq_rt, hres, rres, dres>>
cReq == <<attempt_no, req_state, req_host, req_dres_at, req_late, att_dres_at, cev>>
cEnv == <<clock, inbox, dreqCur, dreqLate, ret>>
cAtt == <<att_state>>
cResp == <<rin, creply>>
loopVars == <<upc, spc, registered, ndel>>
mgrVars == <<mmode, mpc, connected, mcode, console, tries, nudp, nspec,
             loopVars>>
\* no packet: the value of aq and ap outside the matching
NoPacket == [state |-> "none", req_id |-> <<>>, attempt_no |-> 0]

\* no packet to run make_reply on
NoArrival == [state |-> "none"]

retryVars == <<rkind, rleft, rpc, rsent>>
ansVars == <<aq, ap, ares>>
errVars == <<xpkt, xerr>>
auxVars == <<retryVars, ansVars, errVars>>
consVars == <<cpc, cLocals, cReq, cEnv, cAtt, cResp, mgrVars, auxVars>>

coreVars == <<ledgerVars, lthreadVars, idVars, provCfg, provVars, cpc, cLocals,
              cReq, cEnv, cAtt, cResp, mgrVars>>

vars == <<ledgerVars, lthreadVars, idVars, provCfg, provVars, consVars>>

Dims == {"cpu", "ram", "disk"}

Max(a, b) == IF a >= b THEN a ELSE b

\* "while ... and retries": a number is true unless it is zero
Truthy(x) == x # 0

-----------------------------------------------------------------------------
(* Configuration                                                           *)

HostCap == 4

\* CPU, RAM, DISK of the simulators (HOST_CPU, HOST_RAM, HOST_DISK in
\* simulation mode; cpu_count, memory_total, disk_total in real mode)
TOTAL == [cpu |-> HostCap, ram |-> HostCap, disk |-> HostCap]

Zero3 == [cpu |-> 0, ram |-> 0, disk |-> 0]

\* RESOURCE_LIMIT values exercised (percent)
LimitPcts == {0, 50, 100}

\* cos_dict: the classes of service and their minimum requirements
CoSIds == {1, 2}

\* cos_dict with one more class, whose minimum requirements are all zero
AllCoSIds == CoSIds \cup {3}

MinOf(c) ==
    IF c = 1 THEN [cpu |-> 1, ram |-> 1, disk |-> 1]
    ELSE IF c = 2 THEN [cpu |-> 2, ram |-> 1, disk |-> 0]
    ELSE Zero3

\* what the monitor may report as free capacity in real mode
MeasureSnapshots ==
    { TOTAL,
      [cpu |-> HostCap - 1, ram |-> HostCap - 2, disk |-> HostCap],
      [cpu |-> 1, ram |-> 1, disk |-> 1] }

-----------------------------------------------------------------------------
(* Resource ledger: get_resources, check_resources, reserve_resources,     *)
(* free_resources.  Thresholds are compared in hundredths so that          *)
(* CPU * THRESHOLD = CPU * (1 - limit/100) stays an integer.               *)

\* capacity the ledger starts from: declared (simulation) or measured
Avail == IF simOn THEN TOTAL ELSE measured

\* get_resources(): free = capacity - _reserved, per dimension; 0.0 in
\* every dimension on a node that is not a resource
GetResources(res, avail) ==
    [d \in Dims |-> IF isResource THEN avail[d] - res[d] ELSE 0]

\* CPU_THRESHOLD, RAM_THRESHOLD, DISK_THRESHOLD, times 100; CPU, RAM and
\* DISK are 0 on a node that is not a resource
Threshold100(d) == IF isResource THEN TOTAL[d] * (100 - limitPct) ELSE 0

\* the comparison made on the CPU dimension alone
SufficientCpuOnly(res, avail, mins) ==
    (GetResources(res, avail)["cpu"] - mins["cpu"]) * 100 >= Threshold100("cpu")


\* the test shared by check_resources and reserve_resources
Sufficient(res, avail, mins) ==
    \A d \in Dims :
        (GetResources(res, avail)[d] - mins[d]) * 100 >= Threshold100(d)

\* reserve_resources: _reserved[d] += min[d]
AddReserved(res, mins) == [d \in Dims |-> res[d] + mins[d]]

SubReserved(res, mins) == [d \in Dims |-> Max(res[d] - mins[d], 0)]

\* reserve_resources as one call made under _reserved_lock
ReserveOk(res, avail, mins) == Sufficient(res, avail, mins)

ReserveNew(res, avail, mins) ==
    IF ReserveOk(res, avail, mins) THEN AddReserved(res, mins) ELSE res

-----------------------------------------------------------------------------
(* Ledger clients: threads that call check/reserve/free concurrently.      *)

NThreads == 2

LThreads == 1 .. NThreads

\* "with _reserved_lock": the lock is granted only when nobody holds it
AcquireOkNoLock(t) == TRUE

AcquireOk(t) == lockHolder = 0

LCall(t) ==
    /\ lpc[t] = "idle"
    /\ \E op \in {"r_lock", "f_lock", "c_lock"}, c \in CoSIds :
        /\ lpc' = [lpc EXCEPT ![t] = op]
        /\ lcos' = [lcos EXCEPT ![t] = c]
    /\ UNCHANGED <<reserved, limitPct, simOn, measured, lockHolder, lok, idVars, provCfg, provVars, consVars>>

LAcquire(t) ==
    /\ lpc[t] \in {"r_lock", "f_lock", "c_lock"}
    /\ AcquireOk(t)
    /\ lockHolder' = t
    /\ lpc' = [lpc EXCEPT ![t] =
                  CASE lpc[t] = "r_lock" -> "r_test"
                    [] lpc[t] = "f_lock" -> "f_sub"
                    [] OTHER -> "c_test"]
    /\ UNCHANGED <<reserved, limitPct, simOn, measured, lcos, lok, idVars, provCfg, provVars, consVars>>

\* reserve_resources: get_resources(quiet=True) and the threshold test
LReserveTest(t) ==
    /\ lpc[t] = "r_test"
    /\ lok' = [lok EXCEPT ![t] = Sufficient(reserved, Avail, MinOf(lcos[t]))]
    /\ lpc' = [lpc EXCEPT ![t] =
                  IF Sufficient(reserved, Avail, MinOf(lcos[t]))
                  THEN "r_add" ELSE "r_unlock"]
    /\ UNCHANGED <<reserved, limitPct, simOn, measured, lockHolder, lcos, idVars, provCfg, provVars, consVars>>

\* reserve_resources: the three += of the successful branch
LReserveAdd(t) ==
    /\ lpc[t] = "r_add"
    /\ reserved' = AddReserved(reserved, MinOf(lcos[t]))
    /\ lpc' = [lpc EXCEPT ![t] = "r_unlock"]
    /\ UNCHANGED <<limitPct, simOn, measured, lockHolder, lcos, lok, idVars, provCfg, provVars, consVars>>

\* free_resources: the three -= with their clamps
LFree(t) ==
    /\ lpc[t] = "f_sub"
    /\ reserved' = SubReserved(reserved, MinOf(lcos[t]))
    /\ lok' = [lok EXCEPT ![t] = TRUE]
    /\ lpc' = [lpc EXCEPT ![t] = "f_unlock"]
    /\ UNCHANGED <<limitPct, simOn, measured, lockHolder, lcos, idVars, provCfg, provVars, consVars>>

\* check_resources: the threshold test alone
LCheck(t) ==
    /\ lpc[t] = "c_test"
    /\ lok' = [lok EXCEPT ![t] = Sufficient(reserved, Avail, MinOf(lcos[t]))]
    /\ lpc' = [lpc EXCEPT ![t] = "c_unlock"]
    /\ UNCHANGED <<reserved, limitPct, simOn, measured, lockHolder, lcos, idVars, provCfg, provVars, consVars>>

\* leaving the with block
LRelease(t) ==
    /\ lpc[t] \in {"r_unlock", "f_unlock", "c_unlock"}
    /\ lockHolder' = 0
    /\ lpc' = [lpc EXCEPT ![t] = "idle"]
    /\ lcos' = [lcos EXCEPT ![t] = 1]
    /\ lok' = [lok EXCEPT ![t] = FALSE]
    /\ UNCHANGED <<reserved, limitPct, simOn, measured, idVars, provCfg, provVars, consVars>>

\* the monitor thread refreshes MEASURES (real mode only)
LMeasure ==
    /\ ~simOn
    /\ \E m \in MeasureSnapshots : measured' = m /\ m # measured
    /\ UNCHANGED <<reserved, limitPct, simOn, lockHolder, lpc, lcos, lok, idVars, provCfg, provVars, consVars>>

LedgerNext ==
    \/ \E t \in LThreads : LCall(t)
    \/ \E t \in LThreads : LAcquire(t)
    \/ \E t \in LThreads : LReserveTest(t)
    \/ \E t \in LThreads : LReserveAdd(t)
    \/ \E t \in LThreads : LFree(t)
    \/ \E t \in LThreads : LCheck(t)
    \/ \E t \in LThreads : LRelease(t)
    \/ LMeasure

-----------------------------------------------------------------------------
(* Request ids: gen_req_id / _generate_request_id and the insertion of the *)
(* new Request into the registry at the top of send_request.               *)

NSenders == 2

GThreads == 1 .. NSenders

\* ids the random generator can produce (choice over letters and digits)
Ids == {"a", "b", "c"}

Placeholder == "_"

AllIds == Ids \cup {Placeholder}

\* "id in requests"
InRegistry(reg, id) == reg[id] # "absent"

\* id = '_'
GStart(t) ==
    /\ gpc[t] = "start"
    /\ gid' = [gid EXCEPT ![t] = Placeholder]
    /\ gpc' = [gpc EXCEPT ![t] = "test"]
    /\ UNCHANGED <<requests, gclobber, ledgerVars, lthreadVars, provCfg, provVars, consVars>>

\* while id in requests
GTest(t) ==
    /\ gpc[t] = "test"
    /\ gpc' = [gpc EXCEPT ![t] =
                  IF InRegistry(requests, gid[t]) THEN "draw" ELSE "insert"]
    /\ UNCHANGED <<requests, gid, gclobber, ledgerVars, lthreadVars, provCfg, provVars, consVars>>

\* id = ''.join(choice(...) for _ in range(REQ_ID_LEN))
GDraw(t) ==
    /\ gpc[t] = "draw"
    /\ \E i \in Ids : gid' = [gid EXCEPT ![t] = i]
    /\ gpc' = [gpc EXCEPT ![t] = "test"]
    /\ UNCHANGED <<requests, gclobber, ledgerVars, lthreadVars, provCfg, provVars, consVars>>

\* req = Request(req_id, ...); requests[req_id] = req
GInsert(t) ==
    /\ gpc[t] = "insert"
    /\ requests' = [requests EXCEPT ![gid[t]] = ToString(t)]
    /\ gclobber' = IF InRegistry(requests, gid[t])
                   THEN gclobber \cup {gid[t]} ELSE gclobber
    /\ gpc' = [gpc EXCEPT ![t] = "sending"]
    /\ UNCHANGED <<gid, ledgerVars, lthreadVars, provCfg, provVars, consVars>>

IdNext ==
    \/ \E t \in GThreads : GStart(t)
    \/ \E t \in GThreads : GTest(t)
    \/ \E t \in GThreads : GDraw(t)
    \/ \E t \in GThreads : GInsert(t)

-----------------------------------------------------------------------------
(* Provider side.  A provider request is one entry of requests_ (BCST) or  *)
(* _requests (ORCH), keyed by (consumer ip, request id).  make_reply runs  *)
(* on the answering machine's thread, once per accepted packet; every      *)
(* _respond_resources and _respond_data call runs on a thread of its own   *)
(* and is modelled statement by statement.  A packet is seen by make_reply *)
(* and by every sr1 call of a thread that is waiting for an answer to what *)
(* it sent for the same request.                                           *)

PROTO_RETRIES == 3

MaxPkts == 4
MaxThr == 2

PReqs == {"r1", "r2"}
Slots == 1 .. MaxThr

Off == [pc |-> "off", retries |-> 0, got |-> "none"]

\* the ledger calls made on behalf of provider request r (one call each,
\* under _reserved_lock)
PMins(r) == MinOf(pcos[r])

PCheck(r) == Sufficient(reserved, Avail, PMins(r))

PReserveOk(r) == ReserveOk(reserved, Avail, PMins(r))

PReserved(r) == ReserveNew(reserved, Avail, PMins(r))

PFreed(r) == SubReserved(reserved, PMins(r))

\* "if request was cancelled before": the state a cancelled request is in
Cancelled(r) == pst[r] = (IF mode = "ORCH" THEN "RCAN" ELSE "HREQ")

\* the late-DREQ branch calls check_resources and then reserve_resources,
\* each under the lock, and reads MEASURES in both; in real mode the
\* monitor thread can write MEASURES in between.  MonitorWrites(r) is what
\* MEASURES may hold at the second call.
MonitorWrites(r) ==
    IF ~simOn /\ Cancelled(r) /\ PCheck(r) THEN MeasureSnapshots
    ELSE {measured}

AvailAt(m) == IF simOn THEN TOTAL ELSE m

\* reserve_resources(_req) of the late-DREQ branch, its result ignored
LateReserveOk(r, m) == ReserveOk(reserved, AvailAt(m), PMins(r))

LateReserved(r, m) == ReserveNew(reserved, AvailAt(m), PMins(r))

\* Thread(target=...).start(): the new thread takes a free slot
HasSlot(th, r) == \E i \in Slots : th[r][i].pc = "off"

NewSlot(th, r) == CHOOSE i \in Slots :
    /\ th[r][i].pc = "off"
    /\ \A j \in Slots : th[r][j].pc = "off" => i <= j

Spawn(th, r, pc0) ==
    [th EXCEPT ![r][NewSlot(th, r)] =
        [pc |-> pc0, retries |-> PROTO_RETRIES, got |-> "none"]]

\* sr1(): every thread of request r that waits in sr1 for an answer of one
\* of the kinds in `kinds` receives packet k
Capture(th, r, k) ==
    [th EXCEPT ![r] = [i \in Slots |->
        IF th[r][i].pc = "sr1"
        THEN [th[r][i] EXCEPT !.pc = "got", !.got = k]
        ELSE th[r][i]]]

\* a thread's step to program point pc1
Goto(th, r, i, pc1) == [th EXCEPT ![r][i].pc = pc1]

\* a thread returns
Exit(th, r, i) == [th EXCEPT ![r][i] = Off]

\* "already executed": if _req.state == DRES, the cached _req.result is
\* sent back
AlreadyExecutedNever(r) == FALSE

AlreadyExecuted(r) == pst[r] = "DRES"

\* a peer sends one more packet
Send == budget > 0 /\ budget' = budget - 1

-----------------------------------------------------------------------------
(* BROADCAST mode: MyProtocolAM.make_reply, provider branches              *)

\* a provider that answers every HREQ with an offer
HreqReplyAlways(r) == "HRES"

\* if check: send HRES; else: no packet is returned
HreqReply(r) == IF PCheck(r) THEN "HRES" ELSE "none"

\* provider receives host request (HREQ)
PB_HREQ(r) ==
    /\ mode = "BCST" /\ Send
    /\ IF isResource /\ pst[r] \in {"none", "HREQ", "HRES"}
       THEN /\ pst' = [pst EXCEPT ![r] = IF PCheck(r) THEN "HRES" ELSE "HREQ"]
            /\ preply' = HreqReply(r)
       ELSE /\ preply' = "none"
            /\ UNCHANGED pst
    /\ UNCHANGED <<pfreed, pthread, presult, pev, rr, rd, nres, nfree, nexec>>
    /\ UNCHANGED <<ledgerVars, lthreadVars, idVars, provCfg, consVars>>

\* provider receives resource reservation request (RREQ)
PB_RREQ(r) ==
    /\ mode = "BCST" /\ Send
    /\ CASE pst[r] = "HRES" /\ PReserveOk(r) ->
              /\ HasSlot(rr, r)
              /\ reserved' = PReserved(r)
              /\ nres' = [nres EXCEPT ![r] = @ + 1]
              /\ pst' = [pst EXCEPT ![r] = "RRES"]
              /\ pfreed' = [pfreed EXCEPT ![r] = FALSE]
              /\ rr' = Spawn(rr, r, "loop")
              /\ preply' = "none"
         [] pst[r] = "HRES" /\ ~PReserveOk(r) ->
              /\ pst' = [pst EXCEPT ![r] = "HREQ"]
              /\ preply' = "RCAN"
              /\ UNCHANGED <<reserved, nres, pfreed, rr>>
         [] pst[r] = "RRES" ->
              /\ HasSlot(rr, r)
              /\ rr' = Spawn(rr, r, "loop")
              /\ preply' = "none"
              /\ UNCHANGED <<reserved, nres, pst, pfreed>>
         [] OTHER ->
              /\ preply' = "none"
              /\ UNCHANGED <<reserved, nres, pst, pfreed, rr>>
    /\ UNCHANGED <<pthread, presult, pev, rd, nfree, nexec>>
    /\ UNCHANGED <<limitPct, simOn, measured, lthreadVars, idVars, provCfg, consVars>>

\* the DREQ branch of make_reply, MEASURES holding m when reserve_resources
\* reads it
PB_DreqBody(r, m) ==
    /\ measured' = m
    /\ CASE AlreadyExecuted(r) ->
              /\ preply' = "DRES"
              /\ UNCHANGED <<reserved, nres, pst, pfreed, pthread, rd, nexec>>
         [] pst[r] = "RRES" /\ pthread[r] ->
              /\ preply' = "DWAIT"
              /\ UNCHANGED <<reserved, nres, pst, pfreed, pthread, rd, nexec>>
         [] Cancelled(r) /\ PCheck(r) ->
              /\ HasSlot(rd, r)
              /\ reserved' = LateReserved(r, m)
              /\ nres' = [nres EXCEPT ![r] = IF LateReserveOk(r, m) THEN @ + 1
                                             ELSE @]
              /\ pst' = [pst EXCEPT ![r] = "RRES"]
              /\ pfreed' = [pfreed EXCEPT ![r] = FALSE]
              /\ pthread' = [pthread EXCEPT ![r] = TRUE]
              /\ rd' = Spawn(rd, r, "exec")
              /\ nexec' = [nexec EXCEPT ![r] = @ + 1]
              /\ preply' = "none"
         [] Cancelled(r) /\ ~PCheck(r) ->
              /\ preply' = "DCAN"
              /\ UNCHANGED <<reserved, nres, pst, pfreed, pthread, rd, nexec>>
         [] pst[r] = "RRES" /\ ~pthread[r] ->
              /\ HasSlot(rd, r)
              /\ pthread' = [pthread EXCEPT ![r] = TRUE]
              /\ rd' = Spawn(rd, r, "exec")
              /\ nexec' = [nexec EXCEPT ![r] = @ + 1]
              /\ preply' = "none"
              /\ UNCHANGED <<reserved, nres, pst, pfreed>>
         [] OTHER ->
              /\ preply' = "none"
              /\ UNCHANGED <<reserved, nres, pst, pfreed, pthread, rd, nexec>>

\* provider receives data exchange request (DREQ); the _respond_resources
\* threads waiting in sr1 receive it as the answer to their RRES
PB_DREQ(r) ==
    /\ mode = "BCST" /\ Send
    /\ rr' = Capture(rr, r, "DREQ")
    /\ \E m \in MonitorWrites(r) : PB_DreqBody(r, m)
    /\ UNCHANGED <<presult, pev, nfree>>
    /\ UNCHANGED <<limitPct, simOn, lthreadVars, idVars, provCfg, consVars>>

\* provider receives data exchange acknowledgement (DACK); the
\* _respond_data threads waiting in sr1 receive it as the answer to DRES
PB_DACK(r) ==
    /\ mode = "BCST" /\ Send
    /\ rd' = Capture(rd, r, "DACK")
    /\ IF pst[r] = "DRES" /\ ~pfreed[r]
       THEN /\ reserved' = PFreed(r)
            /\ nfree' = [nfree EXCEPT ![r] = @ + 1]
            /\ pfreed' = [pfreed EXCEPT ![r] = TRUE]
       ELSE UNCHANGED <<reserved, nfree, pfreed>>
    /\ preply' = "none"
    /\ UNCHANGED <<pst, pthread, presult, pev, rr, nres, nexec>>
    /\ UNCHANGED <<limitPct, simOn, measured, lthreadVars, idVars, provCfg, consVars>>

\* RCAN has no branch in make_reply: only the sr1 of _respond_resources
\* takes it
PB_RCAN(r) ==
    /\ mode = "BCST" /\ Send
    /\ rr' = Capture(rr, r, "RCAN")
    /\ preply' = "none"
    /\ UNCHANGED <<pst, pfreed, pthread, presult, pev, rd, nres, nfree, nexec>>
    /\ UNCHANGED <<ledgerVars, lthreadVars, idVars, provCfg, consVars>>

\* DCAN has no branch in make_reply: only the sr1 of _respond_data takes it
PB_DCAN(r) ==
    /\ mode = "BCST" /\ Send
    /\ rd' = Capture(rd, r, "DCAN")
    /\ preply' = "none"
    /\ UNCHANGED <<pst, pfreed, pthread, presult, pev, rr, nres, nfree, nexec>>
    /\ UNCHANGED <<ledgerVars, lthreadVars, idVars, provCfg, consVars>>

-----------------------------------------------------------------------------
(* BROADCAST mode: MyProtocolAM._respond_resources                         *)

\* frame of a step that only moves the thread
RROnly == <<pst, pfreed, pthread, presult, pev, rd, preply, budget,
            nres, nfree, nexec, ledgerVars, lthreadVars, idVars, provCfg, consVars>>

RDOnly == <<pst, pfreed, pthread, presult, pev, rr, preply, budget,
            nres, nfree, nexec, ledgerVars, lthreadVars, idVars, provCfg, consVars>>

\* while not dreq and retries and _req.state == RRES: retries -= 1; sr1(RRES)
BRR_Loop(r, i) ==
    /\ mode = "BCST" /\ rr[r][i].pc = "loop"
    /\ rr' = IF rr[r][i].got = "none" /\ Truthy(rr[r][i].retries) /\ pst[r] = "RRES"
             THEN [rr EXCEPT ![r][i].pc = "sr1", ![r][i].retries = @ - 1]
             ELSE Goto(rr, r, i, "after")
    /\ UNCHANGED RROnly

\* sr1 returns None after PROTO_TIMEOUT
BRR_Timeout(r, i) ==
    /\ mode = "BCST" /\ rr[r][i].pc = "sr1"
    /\ rr' = Goto(rr, r, i, "got")
    /\ UNCHANGED RROnly

\* if dreq and dreq.state == RCAN: _req.state = HREQ
BRR_Got(r, i) ==
    /\ mode = "BCST" /\ rr[r][i].pc = "got"
    /\ IF rr[r][i].got = "RCAN"
       THEN /\ pst' = [pst EXCEPT ![r] = "HREQ"]
            /\ rr' = Goto(rr, r, i, "rcan_free")
       ELSE /\ rr' = Goto(rr, r, i, "loop")
            /\ UNCHANGED pst
    /\ UNCHANGED <<pfreed, pthread, presult, pev, rd, preply, budget,
                   nres, nfree, nexec, ledgerVars, lthreadVars, idVars, provCfg, consVars>>

\* free_resources(_req); return
BRR_RcanFree(r, i) ==
    /\ mode = "BCST" /\ rr[r][i].pc = "rcan_free"
    /\ reserved' = PFreed(r)
    /\ nfree' = [nfree EXCEPT ![r] = @ + 1]
    /\ rr' = Exit(rr, r, i)
    /\ UNCHANGED <<pst, pfreed, pthread, presult, pev, rd, preply, budget,
                   nres, nexec, limitPct, simOn, measured, lthreadVars, idVars,
                   provCfg, consVars>>

\* if not dreq and _req.state == RRES
BRR_After(r, i) ==
    /\ mode = "BCST" /\ rr[r][i].pc = "after"
    /\ rr' = IF rr[r][i].got = "none" /\ pst[r] = "RRES"
             THEN Goto(rr, r, i, "to_free")
             ELSE Exit(rr, r, i)
    /\ UNCHANGED RROnly

\* free_resources(_req)
BRR_ToFree(r, i) ==
    /\ mode = "BCST" /\ rr[r][i].pc = "to_free"
    /\ reserved' = PFreed(r)
    /\ nfree' = [nfree EXCEPT ![r] = @ + 1]
    /\ rr' = Goto(rr, r, i, "to_set")
    /\ UNCHANGED <<pst, pfreed, pthread, presult, pev, rd, preply, budget,
                   nres, nexec, limitPct, simOn, measured, lthreadVars, idVars,
                   provCfg, consVars>>

\* _req.state = HREQ; send(RCAN)
BRR_ToSet(r, i) ==
    /\ mode = "BCST" /\ rr[r][i].pc = "to_set"
    /\ pst' = [pst EXCEPT ![r] = "HREQ"]
    /\ rr' = Exit(rr, r, i)
    /\ UNCHANGED <<pfreed, pthread, presult, pev, rd, preply, budget,
                   nres, nfree, nexec, ledgerVars, lthreadVars, idVars, provCfg, consVars>>

-----------------------------------------------------------------------------
(* BROADCAST mode: MyProtocolAM._respond_data                              *)

\* res = execute(data); _req.result = res; _req.state = DRES
BRD_Exec(r, i) ==
    /\ mode = "BCST" /\ rd[r][i].pc = "exec"
    /\ presult' = [presult EXCEPT ![r] = TRUE]
    /\ pst' = [pst EXCEPT ![r] = "DRES"]
    /\ rd' = Goto(rd, r, i, "loop")
    /\ UNCHANGED <<pfreed, pthread, pev, rr, preply, budget,
                   nres, nfree, nexec, ledgerVars, lthreadVars, idVars, provCfg, consVars>>

\* while not dack and retries: retries -= 1; sr1(DRES)
BRD_Loop(r, i) ==
    /\ mode = "BCST" /\ rd[r][i].pc = "loop"
    /\ rd' = IF rd[r][i].got = "none" /\ Truthy(rd[r][i].retries)
             THEN [rd EXCEPT ![r][i].pc = "sr1", ![r][i].retries = @ - 1]
             ELSE Goto(rd, r, i, "after")
    /\ UNCHANGED RDOnly

\* sr1 returns None after PROTO_TIMEOUT
BRD_Timeout(r, i) ==
    /\ mode = "BCST" /\ rd[r][i].pc = "sr1"
    /\ rd' = Goto(rd, r, i, "got")
    /\ UNCHANGED RDOnly

\* if dack and dack.state == DCAN: if not _req._freed
BRD_Got(r, i) ==
    /\ mode = "BCST" /\ rd[r][i].pc = "got"
    /\ rd' = IF rd[r][i].got = "DCAN" /\ ~pfreed[r]
             THEN Goto(rd, r, i, "dcan_free")
             ELSE Goto(rd, r, i, "loop")
    /\ UNCHANGED RDOnly

\* free_resources(_req); _req._freed = True; return
BRD_DcanFree(r, i) ==
    /\ mode = "BCST" /\ rd[r][i].pc = "dcan_free"
    /\ reserved' = PFreed(r)
    /\ nfree' = [nfree EXCEPT ![r] = @ + 1]
    /\ pfreed' = [pfreed EXCEPT ![r] = TRUE]
    /\ rd' = Exit(rd, r, i)
    /\ UNCHANGED <<pst, pthread, presult, pev, rr, preply, budget,
                   nres, nexec, limitPct, simOn, measured, lthreadVars, idVars,
                   provCfg, consVars>>

\* if not dack: if not _req._freed
BRD_After(r, i) ==
    /\ mode = "BCST" /\ rd[r][i].pc = "after"
    /\ rd' = IF rd[r][i].got = "none" /\ ~pfreed[r]
             THEN Goto(rd, r, i, "to_free")
             ELSE Exit(rd, r, i)
    /\ UNCHANGED RDOnly

\* free_resources(_req); _req._freed = True
BRD_ToFree(r, i) ==
    /\ mode = "BCST" /\ rd[r][i].pc = "to_free"
    /\ reserved' = PFreed(r)
    /\ nfree' = [nfree EXCEPT ![r] = @ + 1]
    /\ pfreed' = [pfreed EXCEPT ![r] = TRUE]
    /\ rd' = Exit(rd, r, i)
    /\ UNCHANGED <<pst, pthread, presult, pev, rr, preply, budget,
                   nres, nexec, limitPct, simOn, measured, lthreadVars, idVars,
                   provCfg, consVars>>

-----------------------------------------------------------------------------
(* ORCHESTRATOR mode: MyProtocolAM.make_reply, provider branches           *)

\* if _req_id in _events: _events[_req_id].set()
SetEvent(ev, r) == IF ev[r] = "absent" THEN ev ELSE [ev EXCEPT ![r] = "set"]

\* provider receives resource reservation request (RREQ) from the
\* orchestrator
PO_RREQ(r) ==
    /\ mode = "ORCH" /\ Send
    /\ CASE pst[r] \in {"none", "RREQ", "RCAN"} /\ PReserveOk(r) ->
              /\ HasSlot(rr, r)
              /\ reserved' = PReserved(r)
              /\ nres' = [nres EXCEPT ![r] = @ + 1]
              /\ pst' = [pst EXCEPT ![r] = "RRES"]
              /\ pfreed' = [pfreed EXCEPT ![r] = FALSE]
              /\ rr' = Spawn(rr, r, "loop")
              /\ preply' = "none"
         [] pst[r] \in {"none", "RREQ", "RCAN"} /\ ~PReserveOk(r) ->
              /\ pst' = [pst EXCEPT ![r] = "RREQ"]
              /\ preply' = "RCAN"
              /\ UNCHANGED <<reserved, nres, pfreed, rr>>
         [] pst[r] = "RRES" ->
              /\ HasSlot(rr, r)
              /\ rr' = Spawn(rr, r, "loop")
              /\ preply' = "none"
              /\ UNCHANGED <<reserved, nres, pst, pfreed>>
         [] OTHER ->
              /\ preply' = "none"
              /\ UNCHANGED <<reserved, nres, pst, pfreed, rr>>
    /\ UNCHANGED <<pthread, presult, pev, rd, nfree, nexec>>
    /\ UNCHANGED <<limitPct, simOn, measured, lthreadVars, idVars, provCfg, consVars>>

\* the DREQ branch of make_reply, MEASURES holding m when reserve_resources
\* reads it
PO_DreqBody(r, m) ==
    /\ measured' = m
    /\ CASE AlreadyExecuted(r) ->
              /\ preply' = "DRES"
              /\ UNCHANGED <<reserved, nres, pst, pfreed, pthread, rd, nexec>>
         [] pst[r] = "DREQ" /\ pthread[r] ->
              /\ preply' = "DWAIT"
              /\ UNCHANGED <<reserved, nres, pst, pfreed, pthread, rd, nexec>>
         [] Cancelled(r) /\ PCheck(r) ->
              /\ HasSlot(rd, r)
              /\ reserved' = LateReserved(r, m)
              /\ nres' = [nres EXCEPT ![r] = IF LateReserveOk(r, m) THEN @ + 1
                                             ELSE @]
              /\ pst' = [pst EXCEPT ![r] = "DREQ"]
              /\ pfreed' = [pfreed EXCEPT ![r] = FALSE]
              /\ pthread' = [pthread EXCEPT ![r] = TRUE]
              /\ rd' = Spawn(rd, r, "exec")
              /\ nexec' = [nexec EXCEPT ![r] = @ + 1]
              /\ preply' = "none"
         [] Cancelled(r) /\ ~PCheck(r) ->
              /\ pst' = [pst EXCEPT ![r] = "DCAN"]
              /\ preply' = "DCAN"
              /\ UNCHANGED <<reserved, nres, pfreed, pthread, rd, nexec>>
         [] pst[r] = "RRES" ->
              /\ HasSlot(rd, r)
              /\ pst' = [pst EXCEPT ![r] = "DREQ"]
              /\ pthread' = [pthread EXCEPT ![r] = TRUE]
              /\ rd' = Spawn(rd, r, "exec")
              /\ nexec' = [nexec EXCEPT ![r] = @ + 1]
              /\ preply' = "none"
              /\ UNCHANGED <<reserved, nres, pfreed>>
         [] OTHER ->
              /\ preply' = "none"
              /\ UNCHANGED <<reserved, nres, pst, pfreed, pthread, rd, nexec>>

\* provider receives data exchange request (DREQ) from the consumer
PO_DREQ(r) ==
    /\ mode = "ORCH" /\ Send
    /\ pst[r] # "none"
    /\ pev' = SetEvent(pev, r)
    /\ \E m \in MonitorWrites(r) : PO_DreqBody(r, m)
    /\ UNCHANGED <<presult, rr, nfree>>
    /\ UNCHANGED <<limitPct, simOn, lthreadVars, idVars, provCfg, consVars>>

\* provider receives data exchange acknowledgement (DACK) or cancellation
\* (DCAN) from the orchestrator: the two branches have the same body
PO_DACK(r) ==
    /\ mode = "ORCH" /\ Send
    /\ IF pst[r] = "DRES"
       THEN /\ pev' = SetEvent(pev, r)
            /\ IF ~pfreed[r]
               THEN /\ reserved' = PFreed(r)
                    /\ nfree' = [nfree EXCEPT ![r] = @ + 1]
                    /\ pfreed' = [pfreed EXCEPT ![r] = TRUE]
               ELSE UNCHANGED <<reserved, nfree, pfreed>>
       ELSE UNCHANGED <<pev, reserved, nfree, pfreed>>
    /\ preply' = "none"
    /\ UNCHANGED <<pst, pthread, presult, rr, rd, nres, nexec>>
    /\ UNCHANGED <<limitPct, simOn, measured, lthreadVars, idVars, provCfg, consVars>>

PO_DCAN(r) ==
    /\ mode = "ORCH" /\ Send
    /\ IF pst[r] = "DRES"
       THEN /\ pev' = SetEvent(pev, r)
            /\ IF ~pfreed[r]
               THEN /\ reserved' = PFreed(r)
                    /\ nfree' = [nfree EXCEPT ![r] = @ + 1]
                    /\ pfreed' = [pfreed EXCEPT ![r] = TRUE]
               ELSE UNCHANGED <<reserved, nfree, pfreed>>
       ELSE UNCHANGED <<pev, reserved, nfree, pfreed>>
    /\ preply' = "none"
    /\ UNCHANGED <<pst, pthread, presult, rr, rd, nres, nexec>>
    /\ UNCHANGED <<limitPct, simOn, measured, lthreadVars, idVars, provCfg, consVars>>

\* RACK and RCAN have no branch in make_reply: only the sr1 of
\* _respond_resources takes them
PO_RACK(r) ==
    /\ mode = "ORCH" /\ Send
    /\ rr' = Capture(rr, r, "RACK")
    /\ preply' = "none"
    /\ UNCHANGED <<pst, pfreed, pthread, presult, pev, rd, nres, nfree, nexec>>
    /\ UNCHANGED <<ledgerVars, lthreadVars, idVars, provCfg, consVars>>

PO_RCAN(r) ==
    /\ mode = "ORCH" /\ Send
    /\ rr' = Capture(rr, r, "RCAN")
    /\ preply' = "none"
    /\ UNCHANGED <<pst, pfreed, pthread, presult, pev, rd, nres, nfree, nexec>>
    /\ UNCHANGED <<ledgerVars, lthreadVars, idVars, provCfg, consVars>>

-----------------------------------------------------------------------------
(* ORCHESTRATOR mode: MyProtocolAM._respond_resources                      *)

\* while not rack and retries and state == RRES: retries -= 1; sr1(RRES)
ORR_Loop(r, i) ==
    /\ mode = "ORCH" /\ rr[r][i].pc = "loop"
    /\ rr' = IF rr[r][i].got = "none" /\ Truthy(rr[r][i].retries) /\ pst[r] = "RRES"
             THEN [rr EXCEPT ![r][i].pc = "sr1", ![r][i].retries = @ - 1]
             ELSE Goto(rr, r, i, "after")
    /\ UNCHANGED RROnly

\* sr1 returns None after PROTO_TIMEOUT: rack stays None, back to the
\* loop test (a captured RACK or RCAN is handed over by PO_RACK, PO_RCAN)
ORR_Timeout(r, i) ==
    /\ mode = "ORCH" /\ rr[r][i].pc = "sr1"
    /\ rr' = Goto(rr, r, i, "loop")
    /\ UNCHANGED RROnly

\* rack = sr1(...) got an answer; back to the loop test
ORR_Got(r, i) ==
    /\ mode = "ORCH" /\ rr[r][i].pc = "got"
    /\ rr' = Goto(rr, r, i, "loop")
    /\ UNCHANGED RROnly

\* the branches after the loop: RCAN received, RACK received, or nothing
\* received; "only free resources if still reserved" tests state == RRES
\* and sets state = RCAN
ORR_After(r, i) ==
    /\ mode = "ORCH" /\ rr[r][i].pc = "after"
    /\ CASE rr[r][i].got = "RCAN" /\ pst[r] = "RRES" ->
              /\ pst' = [pst EXCEPT ![r] = "RCAN"]
              /\ rr' = Goto(rr, r, i, "rcan_free")
         [] rr[r][i].got = "RACK" ->
              /\ rr' = Goto(rr, r, i, "ev_new")
              /\ UNCHANGED pst
         [] rr[r][i].got = "none" /\ pst[r] = "RRES" ->
              /\ pst' = [pst EXCEPT ![r] = "RCAN"]
              /\ rr' = Goto(rr, r, i, "to_free")
         [] OTHER ->
              /\ rr' = Exit(rr, r, i)
              /\ UNCHANGED pst
    /\ UNCHANGED <<pfreed, pthread, presult, pev, rd, preply, budget,
                   nres, nfree, nexec, ledgerVars, lthreadVars, idVars, provCfg, consVars>>

\* free_resources after RCAN (the thread returns), or after the RRES
\* retries ran out (the thread goes on to send the RCAN)
ORR_Free(r, i) ==
    /\ mode = "ORCH" /\ rr[r][i].pc \in {"rcan_free", "to_free"}
    /\ reserved' = PFreed(r)
    /\ nfree' = [nfree EXCEPT ![r] = @ + 1]
    /\ rr' = IF rr[r][i].pc = "to_free" THEN Goto(rr, r, i, "send_rcan")
             ELSE Exit(rr, r, i)
    /\ UNCHANGED <<pst, pfreed, pthread, presult, pev, rd, preply, budget,
                   nres, nexec, limitPct, simOn, measured, lthreadVars, idVars,
                   provCfg, consVars>>

\* my_proto.state = RCAN; send(IP(dst=ORCH_IP) / my_proto)
ORR_SendRcan(r, i) ==
    /\ mode = "ORCH" /\ rr[r][i].pc = "send_rcan"
    /\ rr' = Exit(rr, r, i)
    /\ UNCHANGED RROnly

\* _events[_req_id] = Event()
ORR_EvNew(r, i) ==
    /\ mode = "ORCH" /\ rr[r][i].pc = "ev_new"
    /\ pev' = [pev EXCEPT ![r] = "clear"]
    /\ rr' = Goto(rr, r, i, "ev_wait")
    /\ UNCHANGED <<pst, pfreed, pthread, presult, rd, preply, budget,
                   nres, nfree, nexec, ledgerVars, lthreadVars, idVars, provCfg, consVars>>

\* _events[_req_id].wait(PROTO_RETRIES * PROTO_TIMEOUT) returns (the event
\* was set, or the time is over); if not _events[_req_id].is_set()
ORR_EvWait(r, i) ==
    /\ mode = "ORCH" /\ rr[r][i].pc = "ev_wait"
    /\ rr' = IF pev[r] # "set" THEN Goto(rr, r, i, "ev_free") ELSE Exit(rr, r, i)
    /\ UNCHANGED RROnly

\* free_resources(...)
ORR_EvFree(r, i) ==
    /\ mode = "ORCH" /\ rr[r][i].pc = "ev_free"
    /\ reserved' = PFreed(r)
    /\ nfree' = [nfree EXCEPT ![r] = @ + 1]
    /\ rr' = Goto(rr, r, i, "ev_set")
    /\ UNCHANGED <<pst, pfreed, pthread, presult, pev, rd, preply, budget,
                   nres, nexec, limitPct, simOn, measured, lthreadVars, idVars,
                   provCfg, consVars>>

\* _requests[_req_id].state = RCAN; the send of the RCAN that follows in
\* the source is commented out, the thread returns
ORR_EvSet(r, i) ==
    /\ mode = "ORCH" /\ rr[r][i].pc = "ev_set"
    /\ pst' = [pst EXCEPT ![r] = "RCAN"]
    /\ rr' = Exit(rr, r, i)
    /\ UNCHANGED <<pfreed, pthread, presult, pev, rd, preply, budget,
                   nres, nfree, nexec, ledgerVars, lthreadVars, idVars, provCfg, consVars>>

-----------------------------------------------------------------------------
(* ORCHESTRATOR mode: MyProtocolAM._respond_data                           *)

\* res = execute(data); result = res; state = DRES
ORD_Exec(r, i) ==
    /\ mode = "ORCH" /\ rd[r][i].pc = "exec"
    /\ presult' = [presult EXCEPT ![r] = TRUE]
    /\ pst' = [pst EXCEPT ![r] = "DRES"]
    /\ rd' = Goto(rd, r, i, "ev_new")
    /\ UNCHANGED <<pfreed, pthread, pev, rr, preply, budget,
                   nres, nfree, nexec, ledgerVars, lthreadVars, idVars, provCfg, consVars>>

\* _events[_req_id] = Event()
ORD_EvNew(r, i) ==
    /\ mode = "ORCH" /\ rd[r][i].pc = "ev_new"
    /\ pev' = [pev EXCEPT ![r] = "clear"]
    /\ rd' = Goto(rd, r, i, "loop")
    /\ UNCHANGED <<pst, pfreed, pthread, presult, rr, preply, budget,
                   nres, nfree, nexec, ledgerVars, lthreadVars, idVars, provCfg, consVars>>

\* while retries: retries -= 1; send(DRES); wait(PROTO_TIMEOUT);
\* if _events[_req_id].is_set(): return
ORD_Loop(r, i) ==
    /\ mode = "ORCH" /\ rd[r][i].pc = "loop"
    /\ rd' = IF Truthy(rd[r][i].retries)
             THEN IF pev[r] = "set"
                  THEN Exit(rd, r, i)
                  ELSE [rd EXCEPT ![r][i].retries = @ - 1]
             ELSE Goto(rd, r, i, "after")
    /\ UNCHANGED RDOnly

\* if not is_set(): if not _freed
ORD_After(r, i) ==
    /\ mode = "ORCH" /\ rd[r][i].pc = "after"
    /\ rd' = IF pev[r] # "set" /\ ~pfreed[r]
             THEN Goto(rd, r, i, "to_free")
             ELSE Exit(rd, r, i)
    /\ UNCHANGED RDOnly

\* free_resources(...); _freed = True
ORD_ToFree(r, i) ==
    /\ mode = "ORCH" /\ rd[r][i].pc = "to_free"
    /\ reserved' = PFreed(r)
    /\ nfree' = [nfree EXCEPT ![r] = @ + 1]
    /\ pfreed' = [pfreed EXCEPT ![r] = TRUE]
    /\ rd' = Exit(rd, r, i)
    /\ UNCHANGED <<pst, pthread, presult, pev, rr, preply, budget,
                   nres, nexec, limitPct, simOn, measured, lthreadVars, idVars,
                   provCfg, consVars>>

-----------------------------------------------------------------------------
(* The provider: packets arrive, threads run                               *)

\* a packet arrives and the AnsweringMachine runs make_reply on it
ProvPackets ==
    \/ \E r \in PReqs : PB_HREQ(r)
    \/ \E r \in PReqs : PB_RREQ(r)
    \/ \E r \in PReqs : PB_DREQ(r)
    \/ \E r \in PReqs : PB_DACK(r)
    \/ \E r \in PReqs : PB_RCAN(r)
    \/ \E r \in PReqs : PB_DCAN(r)
    \/ \E r \in PReqs : PO_RREQ(r)
    \/ \E r \in PReqs : PO_DREQ(r)
    \/ \E r \in PReqs : PO_DACK(r)
    \/ \E r \in PReqs : PO_DCAN(r)
    \/ \E r \in PReqs : PO_RACK(r)
    \/ \E r \in PReqs : PO_RCAN(r)

\* a thread started by make_reply takes its next step: the threads of
\* broadcast mode
BcstThreads ==
    \/ \E r \in PReqs, i \in Slots : BRR_Loop(r, i)
    \/ \E r \in PReqs, i \in Slots : BRR_Timeout(r, i)
    \/ \E r \in PReqs, i \in Slots : BRR_Got(r, i)
    \/ \E r \in PReqs, i \in Slots : BRR_RcanFree(r, i)
    \/ \E r \in PReqs, i \in Slots : BRR_After(r, i)
    \/ \E r \in PReqs, i \in Slots : BRR_ToFree(r, i)
    \/ \E r \in PReqs, i \in Slots : BRR_ToSet(r, i)
    \/ \E r \in PReqs, i \in Slots : BRD_Exec(r, i)
    \/ \E r \in PReqs, i \in Slots : BRD_Loop(r, i)
    \/ \E r \in PReqs, i \in Slots : BRD_Timeout(r, i)
    \/ \E r \in PReqs, i \in Slots : BRD_Got(r, i)
    \/ \E r \in PReqs, i \in Slots : BRD_DcanFree(r, i)
    \/ \E r \in PReqs, i \in Slots : BRD_After(r, i)
    \/ \E r \in PReqs, i \in Slots : BRD_ToFree(r, i)

\* the threads of orchestrator mode
OrchThreads ==
    \/ \E r \in PReqs, i \in Slots : ORR_Loop(r, i)
    \/ \E r \in PReqs, i \in Slots : ORR_Timeout(r, i)
    \/ \E r \in PReqs, i \in Slots : ORR_Got(r, i)
    \/ \E r \in PReqs, i \in Slots : ORR_After(r, i)
    \/ \E r \in PReqs, i \in Slots : ORR_Free(r, i)
    \/ \E r \in PReqs, i \in Slots : ORR_SendRcan(r, i)
    \/ \E r \in PReqs, i \in Slots : ORR_EvNew(r, i)
    \/ \E r \in PReqs, i \in Slots : ORR_EvWait(r, i)
    \/ \E r \in PReqs, i \in Slots : ORR_EvFree(r, i)
    \/ \E r \in PReqs, i \in Slots : ORR_EvSet(r, i)
    \/ \E r \in PReqs, i \in Slots : ORD_Exec(r, i)
    \/ \E r \in PReqs, i \in Slots : ORD_EvNew(r, i)
    \/ \E r \in PReqs, i \in Slots : ORD_Loop(r, i)
    \/ \E r \in PReqs, i \in Slots : ORD_After(r, i)
    \/ \E r \in PReqs, i \in Slots : ORD_ToFree(r, i)

ProvThreads == BcstThreads \/ OrchThreads

ProvNext == ProvPackets \/ ProvThreads

-----------------------------------------------------------------------------
(* The consumer side: one send_request call and the answering machine of   *)
(* the same node.  send_request runs on the caller's thread and is modelled *)
(* statement by statement; make_reply runs on the answering machine's      *)
(* thread, once per packet.  A DRES packet is seen by make_reply and by the *)
(* sr1 / sniff call send_request is waiting in; the other replies change    *)
(* nothing in make_reply and are modelled as results of sr1.  Of each       *)
(* Attempt the model keeps dres_at.                                         *)

MaxAttempts == 10

\* the providers of the first MaxLateAttempt attempts may answer after
\* their attempt is over; those of later attempts answer in time or never
MaxLateAttempt == 1

Hosts == {"h1", "h2"}
\* keys req.attempts can get: after attempt MaxAttempts - 1 the HREQs can
\* only time out, which opens at most PROTO_RETRIES more attempts
Attempts == 1 .. (MaxAttempts + PROTO_RETRIES)

NoPkt == [kind |-> "none", same |-> TRUE]
NoDreq == [h |-> "none", a |-> 0]
Running == [value |-> "running", state |-> "none", dres |-> FALSE]

\* everything that is not the consumer's
nonCons == <<ledgerVars, lthreadVars, idVars, provCfg, provVars, cResp,
             mgrVars, auxVars>>

\* a packet of the consumer: its kind, the Ethernet destination and the IP
\* destination ("orch": ORCH_MAC / ORCH_IP, "bcast": the broadcast
\* addresses, else a host)
NoSent == [kind |-> "none", mac |-> "none", ip |-> "none"]
Pkt(k, m, i) == [kind |-> k, mac |-> m, ip |-> i]

\* where the consumer addresses what it sends to the party that answers
\* for host h: the host itself, or the orchestrator
Peer(h) == IF mode = "ORCH" THEN "orch" ELSE h

\* the HREQ of send_request: Ether(dst=ORCH_MAC) / IP(dst=ORCH_IP), or the
\* broadcast addresses
HreqPkt ==
    IF mode = "ORCH" THEN Pkt("HREQ", "orch", "orch")
    ELSE Pkt("HREQ", "bcast", "bcast")

\* the DREQ of send_request: Ether(dst=hres.host_mac) / IP(dst=req.host) in
\* orchestrator mode, IP(dst=req.host) in broadcast mode
DreqPkt == Pkt("DREQ", IF mode = "ORCH" THEN hres ELSE req_host, req_host)

\* the DACK of send_request: to the orchestrator, or to req.host
DackPkt == Pkt("DACK", Peer(req_host), Peer(req_host))

\* Request.new_attempt: self._attempt_no += 1
SameAttemptNo(n) == n

NextAttemptNo(n) == n + 1

\* the attempts a thread can still write: the one named by a packet that is
\* or may come in flight.  Of the other attempts that are over the model
\* keeps the key and forgets the state ("past").
Named(a) == a \in {dreqLate.a, inbox.a}

\* req.attempts after new_attempt() and attempt.state = HREQ
WithNewAttempt(n) ==
    [a \in Attempts |->
        IF a = n THEN "HREQ"
        ELSE IF att_state[a] = "absent" \/ Named(a) THEN att_state[a]
        ELSE "past"]

\* attempts[a].state = st
SetAttState(a, st) == [b \in Attempts |-> IF b = a THEN st ELSE att_state[b]]

\* while not hres and hreq_rt and not req.dres_at
S_HTest ==
    /\ cpc = "h_test"
    /\ cpc' = IF hres = "none" /\ Truthy(hreq_rt) /\ req_dres_at = 0
              THEN "h_new" ELSE "f_test"
    /\ UNCHANGED <<cLocals, cReq, cEnv, cAtt, nonCons>>

\* req.host = None; req.state = HREQ; attempt = req.new_attempt();
\* hreq_rt -= 1; the HREQ is sent (no DREQ of the new attempt is out yet)
S_HNew ==
    /\ cpc = "h_new"
    /\ req_host' = "none"
    /\ req_state' = "HREQ"
    /\ attempt_no' = NextAttemptNo(attempt_no)
    /\ att_state' = WithNewAttempt(NextAttemptNo(attempt_no))
    /\ hreq_rt' = hreq_rt - 1
    /\ dreqCur' = NoDreq
    /\ cpc' = "h_sr1"
    /\ UNCHANGED <<rreq_rt, dreq_rt, hres, rres, dres, req_dres_at, req_late,
                   att_dres_at, cev, clock, inbox, dreqLate, ret, nonCons>>

\* hres = srp1(...) returns None after the timeout
S_HTimeout ==
    /\ cpc = "h_sr1"
    /\ hres' = "none"
    /\ cpc' = "h_got"
    /\ UNCHANGED <<hreq_rt, rreq_rt, dreq_rt, rres, dres, cReq, cEnv, cAtt, nonCons>>

\* hres = srp1(...) returns the first host response, naming host h
S_HRecv(h) ==
    /\ cpc = "h_sr1"
    /\ attempt_no < MaxAttempts
    /\ hres' = h
    /\ cpc' = "h_got"
    /\ UNCHANGED <<hreq_rt, rreq_rt, dreq_rt, rres, dres, cReq, cEnv, cAtt, nonCons>>

\* BROADCAST: if hres and not req.dres_at: req.state = RREQ; req.host = ...;
\* hreq_rt = PROTO_RETRIES; rreq_rt = PROTO_RETRIES; rres = None
SB_HGot ==
    /\ mode = "BCST" /\ cpc = "h_got"
    /\ IF hres # "none" /\ req_dres_at = 0
       THEN /\ att_state' = SetAttState(attempt_no, "RREQ")
            /\ req_state' = "RREQ"
            /\ req_host' = hres
            /\ hreq_rt' = PROTO_RETRIES
            /\ rreq_rt' = PROTO_RETRIES
            /\ rres' = NoPkt
            /\ cpc' = "r_test"
       ELSE /\ cpc' = "h_test"
            /\ UNCHANGED <<att_state, req_state, req_host, hreq_rt, rreq_rt,
                           rres>>
    /\ UNCHANGED <<dreq_rt, hres, dres, attempt_no, req_dres_at, req_late,
                   att_dres_at, cev, cEnv, nonCons>>

\* ORCHESTRATOR: if hres and not req.dres_at: req.state = DREQ; req.host =
\* ...; hreq_rt = PROTO_RETRIES; dreq_rt = PROTO_RETRIES; dres = None
SO_HGot ==
    /\ mode = "ORCH" /\ cpc = "h_got"
    /\ IF hres # "none" /\ req_dres_at = 0
       THEN /\ att_state' = SetAttState(attempt_no, "DREQ")
            /\ req_state' = "DREQ"
            /\ req_host' = hres
            /\ hreq_rt' = PROTO_RETRIES
            /\ dreq_rt' = PROTO_RETRIES
            /\ dres' = NoPkt
            /\ cpc' = "d_test"
       ELSE /\ cpc' = "h_test"
            /\ UNCHANGED <<att_state, req_state, req_host, hreq_rt, dreq_rt,
                           dres>>
    /\ UNCHANGED <<rreq_rt, hres, rres, attempt_no, req_dres_at, req_late,
                   att_dres_at, cev, cEnv, nonCons>>

\* while not rres and rreq_rt and not req.dres_at: rreq_rt -= 1; the RREQ
\* is sent
SB_RTest ==
    /\ mode = "BCST" /\ cpc = "r_test"
    /\ IF rres.kind = "none" /\ Truthy(rreq_rt) /\ req_dres_at = 0
       THEN /\ rreq_rt' = rreq_rt - 1
            /\ cpc' = "r_sr1"
       ELSE /\ cpc' = "r_end"
            /\ UNCHANGED rreq_rt
    /\ UNCHANGED <<hreq_rt, dreq_rt, hres, rres, dres, cReq, cEnv, cAtt,
                   nonCons>>

\* rres = sr1(...) returns None after the timeout
SB_RTimeout ==
    /\ mode = "BCST" /\ cpc = "r_sr1"
    /\ rres' = NoPkt
    /\ cpc' = "r_got"
    /\ UNCHANGED <<hreq_rt, rreq_rt, dreq_rt, hres, dres, cReq, cEnv, cAtt, nonCons>>

\* rres = sr1(...) returns an RRES or RCAN, from req.host or from a
\* previous host
SB_RRecv(k, same) ==
    /\ mode = "BCST" /\ cpc = "r_sr1"
    /\ rres' = [kind |-> k, same |-> same]
    /\ cpc' = "r_got"
    /\ UNCHANGED <<hreq_rt, rreq_rt, dreq_rt, hres, dres, cReq, cEnv, cAtt, nonCons>>

\* if rres and not req.dres_at: late response -> sniff; RCAN -> continue;
\* else req.state = DREQ; dreq_rt = PROTO_RETRIES; dres = None
SB_RGot ==
    /\ mode = "BCST" /\ cpc = "r_got"
    /\ CASE rres.kind # "none" /\ req_dres_at = 0 /\ ~rres.same ->
              /\ cpc' = "r_sniff"
              /\ UNCHANGED <<att_state, req_state, dreq_rt, dres>>
         [] rres.kind = "RCAN" /\ req_dres_at = 0 /\ rres.same ->
              /\ att_state' = SetAttState(attempt_no, "RCAN")
              /\ cpc' = "r_test"
              /\ UNCHANGED <<req_state, dreq_rt, dres>>
         [] rres.kind = "RRES" /\ req_dres_at = 0 /\ rres.same ->
              /\ att_state' = SetAttState(attempt_no, "DREQ")
              /\ req_state' = "DREQ"
              /\ dreq_rt' = PROTO_RETRIES
              /\ dres' = NoPkt
              /\ cpc' = "d_test"
         [] OTHER ->
              /\ cpc' = "r_test"
              /\ UNCHANGED <<att_state, req_state, dreq_rt, dres>>
    /\ UNCHANGED <<hreq_rt, rreq_rt, hres, rres, attempt_no, req_host,
                   req_dres_at, req_late, att_dres_at, cev, cEnv, nonCons>>

\* sniff(...)[0] raises after the timeout: rres = None; continue
SB_RSniffTimeout ==
    /\ mode = "BCST" /\ cpc = "r_sniff"
    /\ rres' = NoPkt
    /\ cpc' = "r_test"
    /\ UNCHANGED <<hreq_rt, rreq_rt, dreq_rt, hres, dres, cReq, cEnv, cAtt, nonCons>>

\* sniff(...) returns the RRES or RCAN of req.host
SB_RSniffRecv(k) ==
    /\ mode = "BCST" /\ cpc = "r_sniff"
    /\ rres' = [kind |-> k, same |-> TRUE]
    /\ IF k = "RCAN"
       THEN /\ att_state' = SetAttState(attempt_no, "RCAN")
            /\ cpc' = "r_test"
            /\ UNCHANGED <<req_state, dreq_rt, dres>>
       ELSE /\ att_state' = SetAttState(attempt_no, "DREQ")
            /\ req_state' = "DREQ"
            /\ dreq_rt' = PROTO_RETRIES
            /\ dres' = NoPkt
            /\ cpc' = "d_test"
    /\ UNCHANGED <<hreq_rt, rreq_rt, hres, attempt_no, req_host,
                   req_dres_at, req_late, att_dres_at, cev, cEnv, nonCons>>

\* after the reservation loop: hres = None
SB_REnd ==
    /\ mode = "BCST" /\ cpc = "r_end"
    /\ hres' = "none"
    /\ cpc' = "h_test"
    /\ UNCHANGED <<hreq_rt, rreq_rt, dreq_rt, rres, dres, cReq, cEnv, cAtt, nonCons>>

\* while not dres and dreq_rt and not req.dres_at
S_DTest ==
    /\ cpc = "d_test"
    /\ cpc' = IF dres.kind = "none" /\ Truthy(dreq_rt) /\ req_dres_at = 0
              THEN "d_send" ELSE "d_end"
    /\ UNCHANGED <<cLocals, cReq, cEnv, cAtt, nonCons>>

\* dreq_rt -= 1; the DREQ of the attempt is sent: in orchestrator mode to
\* Ether(dst=hres.host_mac) / IP(dst=req.host), in broadcast mode to
\* IP(dst=req.host)
S_DSend ==
    /\ cpc = "d_send"
    /\ dreq_rt' = dreq_rt - 1
    /\ dreqCur' = [h |-> DreqPkt.ip, a |-> attempt_no]
    /\ cpc' = "d_sr1"
    /\ UNCHANGED <<hreq_rt, rreq_rt, hres, rres, dres, cReq, clock, inbox,
                   dreqLate, ret, cAtt, nonCons>>

\* dres = sr1(...) returns None after the timeout
S_DTimeout ==
    /\ cpc = "d_sr1"
    /\ dres' = NoPkt
    /\ cpc' = "d_got"
    /\ UNCHANGED <<hreq_rt, rreq_rt, dreq_rt, hres, rres, cReq, cEnv, cAtt, nonCons>>

\* dres = sr1(...) returns a DWAIT or DCAN (a DRES comes through
\* DresArrives)
S_DRecv(k, same) ==
    /\ cpc = "d_sr1"
    /\ mode = "ORCH" => same
    /\ dres' = [kind |-> k, same |-> same]
    /\ cpc' = "d_got"
    /\ UNCHANGED <<hreq_rt, rreq_rt, dreq_rt, hres, rres, cReq, cEnv, cAtt, nonCons>>

\* BROADCAST: if dres and not req.dres_at: DWAIT from req.host refills
\* dreq_rt, a packet of another host gives the retry back; both then sniff
\* for the DRES of req.host
SB_DGot ==
    /\ mode = "BCST" /\ cpc = "d_got"
    /\ IF dres.kind # "none" /\ req_dres_at = 0
       THEN /\ dreq_rt' = IF dres.same /\ dres.kind = "DWAIT" THEN PROTO_RETRIES
                          ELSE IF ~dres.same THEN dreq_rt + 1
                          ELSE dreq_rt
            /\ cpc' = IF ~dres.same \/ dres.kind = "DWAIT"
                      THEN "d_sniff" ELSE "d_chk"
       ELSE /\ cpc' = "d_test"
            /\ UNCHANGED dreq_rt
    /\ UNCHANGED <<hreq_rt, rreq_rt, hres, rres, dres, cReq, cEnv, cAtt, nonCons>>

\* sniff(...)[0] raises after the timeout: dres = None; continue
SB_DSniffTimeout ==
    /\ mode = "BCST" /\ cpc = "d_sniff"
    /\ dres' = NoPkt
    /\ cpc' = "d_test"
    /\ UNCHANGED <<hreq_rt, rreq_rt, dreq_rt, hres, rres, cReq, cEnv, cAtt, nonCons>>

\* ORCHESTRATOR: if dres and not req.dres_at: on DWAIT dreq_rt =
\* PROTO_RETRIES; _events[req_id] = Event()
SO_DGot ==
    /\ mode = "ORCH" /\ cpc = "d_got"
    /\ CASE dres.kind = "DWAIT" /\ req_dres_at = 0 ->
              /\ dreq_rt' = PROTO_RETRIES
              /\ cev' = "clear"
              /\ cpc' = "d_wait"
         [] dres.kind \in {"DRES", "DCAN"} /\ req_dres_at = 0 ->
              /\ cpc' = "d_chk"
              /\ UNCHANGED <<dreq_rt, cev>>
         [] OTHER ->
              /\ cpc' = "d_test"
              /\ UNCHANGED <<dreq_rt, cev>>
    /\ UNCHANGED <<hreq_rt, rreq_rt, hres, rres, dres, attempt_no, req_state,
                   req_host, req_dres_at, req_late, att_dres_at, cEnv, cAtt, nonCons>>

\* _events[req_id].wait(PROTO_TIMEOUT) returns; if not is_set(): dres =
\* None; continue
SO_DWait ==
    /\ mode = "ORCH" /\ cpc = "d_wait"
    /\ IF cev # "set"
       THEN /\ dres' = NoPkt
            /\ cpc' = "d_test"
       ELSE /\ cpc' = "d_chk"
            /\ UNCHANGED dres
    /\ UNCHANGED <<hreq_rt, rreq_rt, dreq_rt, hres, rres, cReq, cEnv, cAtt, nonCons>>

\* if dres.state == DCAN: attempt.state = DCAN; continue; if not
\* req.dres_at
S_DChk ==
    /\ cpc = "d_chk"
    /\ cpc' = IF dres.kind = "DCAN" THEN "d_test"
              ELSE IF req_dres_at = 0 THEN "d_write"
              ELSE "d_ret"
    /\ att_state' = IF dres.kind = "DCAN" THEN SetAttState(attempt_no, "DCAN")
                    ELSE att_state
    /\ UNCHANGED <<cLocals, cReq, cEnv, nonCons>>

\* req.dres_at = time(); req.state = DRES; req.result = dres.data;
\* attempt.dres_at = req.dres_at; attempt.state = DRES; the DACK is sent
\* to req.host (broadcast) or to the orchestrator
S_DWrite ==
    /\ cpc = "d_write"
    /\ clock' = clock + 1
    /\ req_dres_at' = clock + 1
    /\ req_state' = "DRES"
    /\ att_dres_at' = [att_dres_at EXCEPT ![attempt_no] = clock + 1]
    /\ att_state' = SetAttState(attempt_no, "DRES")
    /\ cpc' = "d_ret"
    /\ UNCHANGED <<cLocals, attempt_no, req_host, req_late, cev, inbox,
                   dreqCur, dreqLate, ret, nonCons>>

\* return req.result
S_DRet ==
    /\ cpc = "d_ret"
    /\ ret' = [value |-> "result", state |-> req_state, dres |-> req_dres_at # 0]
    /\ cpc' = "returned"
    /\ UNCHANGED <<cLocals, cReq, clock, inbox, dreqCur, dreqLate, cAtt, nonCons>>

\* BROADCAST, after the data loop: hres = None; if dreq_rt == 0: req._late
\* = True; the reservation loop goes on
SB_DEnd ==
    /\ mode = "BCST" /\ cpc = "d_end"
    /\ hres' = "none"
    /\ req_late' = (req_late \/ dreq_rt = 0)
    /\ dreqLate' = IF dreq_rt = 0 /\ attempt_no <= MaxLateAttempt
                 THEN dreqCur ELSE dreqLate
    /\ cpc' = "r_test"
    /\ UNCHANGED <<hreq_rt, rreq_rt, dreq_rt, rres, dres, attempt_no, req_state,
                   req_host, req_dres_at, att_dres_at, cev, clock, inbox,
                   dreqCur, ret, cAtt, nonCons>>

\* ORCHESTRATOR, after the data loop: hres = None; if dreq_rt == 0:
\* req._late = True; the host loop goes on
SO_DEnd ==
    /\ mode = "ORCH" /\ cpc = "d_end"
    /\ hres' = "none"
    /\ req_late' = (req_late \/ dreq_rt = 0)
    /\ dreqLate' = IF dreq_rt = 0 /\ attempt_no <= MaxLateAttempt
                 THEN dreqCur ELSE dreqLate
    /\ cpc' = "h_test"
    /\ UNCHANGED <<hreq_rt, rreq_rt, dreq_rt, rres, dres, attempt_no, req_state,
                   req_host, req_dres_at, att_dres_at, cev, clock, inbox,
                   dreqCur, ret, cAtt, nonCons>>

\* if not req.dres_at
S_FTest ==
    /\ cpc = "f_test"
    /\ cpc' = IF req_dres_at = 0 THEN "f_fail" ELSE "f_ret"
    /\ UNCHANGED <<cLocals, cReq, cEnv, cAtt, nonCons>>

\* req.state = FAIL
S_FFail ==
    /\ cpc = "f_fail"
    /\ req_state' = "FAIL"
    /\ cpc' = "f_ret"
    /\ UNCHANGED <<cLocals, attempt_no, req_host, req_dres_at, req_late,
                   att_dres_at, cev, cEnv, cAtt, nonCons>>

\* if req.dres_at: return req.result (else the function ends: None)
S_FRet ==
    /\ cpc = "f_ret"
    /\ ret' = [value |-> IF req_dres_at # 0 THEN "result" ELSE "None",
               state |-> req_state, dres |-> req_dres_at # 0]
    /\ cpc' = "returned"
    /\ UNCHANGED <<cLocals, cReq, clock, inbox, dreqCur, dreqLate, cAtt, nonCons>>

-----------------------------------------------------------------------------
(* The consumer's answering machine and the providers' DRES packets        *)

\* a provider the DREQ of attempt p.a was sent to (in the current attempt,
\* or in the last attempt whose DREQ retries ran out) sends its DRES; the
\* sr1 or sniff send_request is waiting in takes it as well
DresArrives(p) ==
    /\ p # NoDreq
    /\ p \in {dreqCur, dreqLate}
    /\ inbox = NoDreq
    /\ inbox' = p
    /\ CASE cpc = "d_sr1" ->
              /\ dres' = [kind |-> "DRES", same |-> (mode = "ORCH" \/ p.h = req_host)]
              /\ cpc' = "d_got"
         [] cpc = "d_sniff" /\ p.h = req_host ->
              /\ dres' = [kind |-> "DRES", same |-> TRUE]
              /\ cpc' = "d_chk"
         [] OTHER -> UNCHANGED <<dres, cpc>>
    /\ UNCHANGED <<hreq_rt, rreq_rt, dreq_rt, hres, rres, cReq, clock,
                   dreqCur, dreqLate, ret, cAtt, nonCons>>

\* broadcast mode, "if response from previous host, accept": if ip_src !=
\* my_req.host and my_req._late
LateFromAny(h) == TRUE

LateFromOther(h) == h # req_host /\ req_late

\* the packet make_reply returns for a DRES of host h when a response was
\* already accepted: DCAN if h is a different host, DACK if the same
LateReply(h) ==
    Pkt(IF h # req_host THEN "DCAN" ELSE "DACK", Peer(h), Peer(h))

\* the packet make_reply returns for a DRES of host h (NoSent: it returns
\* None)
DresReply(h) ==
    IF req_dres_at # 0 THEN LateReply(h)
    ELSE IF mode = "ORCH" \/ LateFromOther(h)
         THEN Pkt("DACK", Peer(h), Peer(h))
    ELSE NoSent

\* BROADCAST make_reply: consumer receives late data exchange response
CB_DRES ==
    /\ mode = "BCST" /\ inbox # NoDreq
    /\ CASE req_dres_at = 0 /\ LateFromOther(inbox.h) ->
              /\ clock' = clock + 1
              /\ req_dres_at' = clock + 1
              /\ req_state' = "DRES"
              /\ req_host' = inbox.h
              /\ att_dres_at' = [att_dres_at EXCEPT ![inbox.a] = clock + 1]
              /\ att_state' = SetAttState(inbox.a, "DRES")
         [] OTHER ->
              UNCHANGED <<clock, req_dres_at, req_state, req_host,
                          att_dres_at, att_state>>
    /\ inbox' = NoDreq
    /\ UNCHANGED <<cpc, cLocals, attempt_no, req_late, cev, dreqCur, dreqLate,
                   ret, nonCons>>

\* ORCHESTRATOR make_reply: consumer receives data exchange response
CO_DRES ==
    /\ mode = "ORCH" /\ inbox # NoDreq
    /\ IF req_dres_at = 0
       THEN /\ clock' = clock + 1
            /\ req_dres_at' = clock + 1
            /\ req_state' = "DRES"
            /\ req_host' = inbox.h
            /\ att_dres_at' = [att_dres_at EXCEPT ![inbox.a] = clock + 1]
            /\ att_state' = SetAttState(inbox.a, "DRES")
            /\ cev' = IF cev = "absent" THEN cev ELSE "set"
       ELSE UNCHANGED <<clock, req_dres_at, req_state, req_host,
                        att_dres_at, att_state, cev>>
    /\ inbox' = NoDreq
    /\ UNCHANGED <<cpc, cLocals, attempt_no, req_late, dreqCur, dreqLate,
                   ret, nonCons>>

\* the layers of a packet is_request lets through, and the fields each has
\* (Ether and IP of scapy, MyProtocol of the module)
PacketFields ==
    {"dst", "src", "type"} \cup
    {"version", "ihl", "tos", "len", "id", "flags", "frag", "ttl", "proto",
     "chksum", "options"} \cup
    {"state", "req_id", "attempt_no", "cos_id", "data", "cpu_offer",
     "ram_offer", "disk_offer"}

\* what make_reply comes to when it raises instead of returning
Raised == [kind |-> "AttributeError", mac |-> "none", ip |-> "none"]

\* req.<f> on the received packet: scapy looks the name up in the fields of
\* every layer and raises AttributeError after the last
HasField(f) == f \in PacketFields

\* "consumer receives late resource reservation response from a previous
\* host": if state == RRES and my_req and ip_src != req.host, where req is
\* the received packet; the reply is IP(dst=ip_src) / my_proto with state
\* RCAN
RresReply(h) ==
    IF ~HasField("host") THEN Raised
    ELSE IF h # req_host THEN Pkt("RCAN", Peer(h), Peer(h))
    ELSE NoSent

\* a host an RREQ of this request was sent to sends its RRES; the answering
\* machine sniffs it (send_request's sr1 may take it as well: SB_RRecv)
RresArrives(h) ==
    /\ mode = "BCST" /\ rin = "none"
    /\ rin' = h
    /\ UNCHANGED <<cpc, cLocals, cReq, cEnv, cAtt, creply>>
    /\ UNCHANGED <<ledgerVars, lthreadVars, idVars, provCfg, provVars, mgrVars, auxVars>>

\* BROADCAST make_reply: consumer receives a resource reservation response
\* for a request of its own
CB_RRES ==
    /\ mode = "BCST" /\ rin # "none"
    /\ creply' = RresReply(rin)
    /\ rin' = "none"
    /\ UNCHANGED <<cpc, cLocals, cReq, cEnv, cAtt>>
    /\ UNCHANGED <<ledgerVars, lthreadVars, idVars, provCfg, provVars, mgrVars, auxVars>>

\* the reservation loop of send_request
ReservationLoop ==
    \/ SB_RTest
    \/ SB_RTimeout
    \/ \E k \in {"RRES", "RCAN"}, same \in BOOLEAN : SB_RRecv(k, same)
    \/ SB_RGot
    \/ SB_RSniffTimeout
    \/ \E k \in {"RRES", "RCAN"} : SB_RSniffRecv(k)
    \/ SB_REnd

RespNext ==
    \/ ReservationLoop
    \/ \E h \in Hosts : RresArrives(h)
    \/ CB_RRES

-----------------------------------------------------------------------------
(* The agent: Manager.connect and Manager.disconnect                       *)

\* failed calls of one retry loop that are followed (the loops themselves
\* are unbounded)
MaxTries == 4

\* (status, error) pairs get_config and add_node fail with: an HTTP status
\* with its message, or (None, name of the exception)
FailCodes == {<<"500", "Internal Server Error">>, <<"None", "ConnectionError">>}

\* the answers that are not failures: HTTP_SUCCESS, and HTTP_EXISTS for a
\* node the orchestrator already has
Success == <<"200", "OK">>
Exists == <<"303", "See Other">>

\* _code = [0, 0]
NoCode == <<"0", "0">>

IdleConsole == [c \in FailCodes |-> 0]

\* everything that is not the manager's
nonMgr == <<ledgerVars, lthreadVars, idVars, provCfg, provVars, cpc, cLocals,
            cReq, cEnv, cAtt, cResp, auxVars>>

\* file.error(code); if _code[0] != code[0] or _code[1] != code[1]:
\* console.error(code); _code = code
Report(c) ==
    /\ console' = IF mcode[1] # c[1] \/ mcode[2] # c[2]
                  THEN [console EXCEPT ![c] = @ + 1] ELSE console
    /\ mcode' = c

\* conf, *code = get_config(): the configuration arrives, or the call fails
\* with pair o and connect sleeps a second and asks again; after the loop
\* client and resource mode go on to join (_code = [0, 0] again), switch
\* mode sets _connected and starts _update_specs
GetConfig(o) ==
    /\ mpc = "conf"
    /\ IF o = Success
       THEN /\ mcode' = NoCode
            /\ tries' = 0
            /\ IF mmode = "switch"
               THEN /\ mpc' = "done" /\ connected' = TRUE
                    /\ nspec' = nspec + 1
                    /\ spc' = "test"
               ELSE mpc' = "join" /\ UNCHANGED <<connected, nspec, spc>>
            /\ UNCHANGED console
       ELSE /\ tries < MaxTries
            /\ Report(o)
            /\ tries' = tries + 1
            /\ UNCHANGED <<mpc, connected, nspec, spc>>
    /\ UNCHANGED <<mmode, nudp, upc, registered, ndel, nonMgr>>

\* a join loop that gives up after the first failure
AfterJoinGiveUp(o) == IF o[1] = Exists[1] THEN "exited" ELSE "done"

\* where connect is after one add_node call: HTTP_EXISTS ends the agent
\* (all_exit), success ends the loop (while not self._connected) and
\* connect returns, any failure repeats the loop
AfterJoin(o) ==
    IF o[1] = Exists[1] THEN "exited"
    ELSE IF o = Success THEN "done"
    ELSE "join"

\* added, *code = add_node(self.node) answers with pair o: 303, success, or
\* a failure
AddNode(o) ==
    /\ mpc = "join"
    /\ mpc' = AfterJoin(o)
    /\ CASE o[1] = Exists[1] ->
              UNCHANGED <<connected, nudp, nspec, console, mcode, tries,
                          upc, spc, registered>>
         [] o = Success ->
              /\ connected' = TRUE
              /\ registered' = TRUE
              /\ nudp' = nudp + 1
              /\ nspec' = nspec + 1
              /\ upc' = "test"
              /\ spc' = "test"
              /\ UNCHANGED <<console, mcode, tries>>
         [] OTHER ->
              /\ tries < MaxTries
              /\ Report(o)
              /\ tries' = tries + 1
              /\ UNCHANGED <<connected, nudp, nspec, upc, spc, registered>>
    /\ UNCHANGED <<mmode, ndel, nonMgr>>

\* Manager.disconnect(), called once connect has returned: self._connected
\* = False, then, unless the mode is switch, delete_node, which the
\* orchestrator answers with 200 or fails
Disconnect ==
    /\ mpc = "done" /\ connected
    /\ connected' = FALSE
    /\ IF mmode # "switch"
       THEN /\ ndel' = ndel + 1
            /\ \E o \in {Success} \cup FailCodes :
                  registered' = IF o = Success THEN FALSE ELSE registered
       ELSE UNCHANGED <<ndel, registered>>
    /\ UNCHANGED <<mmode, mpc, mcode, console, tries, nudp, nspec, upc, spc,
                   nonMgr>>

\* a loop that does not look at _connected
LoopGoesAlways == TRUE

\* "while self._connected" of the two periodic loops
LoopGoes == connected

\* _udp_connect: the loop test; udp_client.close() after the loop
UdpTest ==
    /\ upc = "test"
    /\ upc' = IF LoopGoes THEN "send" ELSE "end"
    /\ UNCHANGED <<mmode, mpc, connected, mcode, console, tries, nudp, nspec,
                   spc, registered, ndel, nonMgr>>

\* udp_client.sendto(...); sleep(period)
UdpSend ==
    /\ upc = "send"
    /\ upc' = "test"
    /\ UNCHANGED <<mmode, mpc, connected, mcode, console, tries, nudp, nspec,
                   spc, registered, ndel, nonMgr>>

\* _update_specs: the loop test
SpecTest ==
    /\ spc = "test"
    /\ spc' = IF LoopGoes THEN "sleep" ELSE "end"
    /\ UNCHANGED <<mmode, mpc, connected, mcode, console, tries, nudp, nspec,
                   upc, registered, ndel, nonMgr>>

\* sleep(MONITOR_PERIOD); the node's free resources and interface
\* statistics are refreshed
SpecSleep ==
    /\ spc = "sleep"
    /\ spc' = "update"
    /\ UNCHANGED <<mmode, mpc, connected, mcode, console, tries, nudp, nspec,
                   upc, registered, ndel, nonMgr>>

\* updated, *code = update_node_specs(self.node) answers with pair o; the
\* orchestrator cannot update a node it does not hold.  After a failure
\* every mode but switch goes on to add_node
SpecUpdate(o) ==
    /\ spc = "update"
    /\ o = Success => (registered \/ mmode = "switch")
    /\ spc' = IF o # Success /\ mmode # "switch" THEN "readd" ELSE "test"
    /\ UNCHANGED <<mmode, mpc, connected, mcode, console, tries, nudp, nspec,
                   upc, registered, ndel, nonMgr>>

\* add_node(self.node): "re-add node in case it was deleted"; the result
\* is not looked at
SpecReAdd(o) ==
    /\ spc = "readd"
    /\ registered' = IF o = Success THEN TRUE ELSE registered
    /\ spc' = "test"
    /\ UNCHANGED <<mmode, mpc, connected, mcode, console, tries, nudp, nspec,
                   upc, ndel, nonMgr>>

UdpLoop == UdpTest \/ UdpSend

SpecLoop ==
    \/ SpecTest
    \/ SpecSleep
    \/ \E o \in {Success} \cup FailCodes : SpecUpdate(o)
    \/ \E o \in {Success, Exists} \cup FailCodes : SpecReAdd(o)

\* connect, the two loops it starts, and disconnect
LoopNext ==
    \/ \E o \in {Success} \cup FailCodes : GetConfig(o)
    \/ \E o \in {Success, Exists} \cup FailCodes : AddNode(o)
    \/ Disconnect
    \/ UdpLoop
    \/ SpecLoop

\* the host loop of send_request
HostLoop ==
    \/ S_HTest
    \/ S_HNew
    \/ S_HTimeout
    \/ \E h \in Hosts : S_HRecv(h)
    \/ SB_HGot
    \/ SO_HGot

\* the agent's CLI and GUI call send_request in client and resource mode,
\* after connect has returned
MgrNext ==
    \/ \E o \in {Success} \cup FailCodes : GetConfig(o)
    \/ \E o \in {Success, Exists} \cup FailCodes : AddNode(o)
    \/ Disconnect
    \/ mpc = "done" /\ mmode # "switch" /\ HostLoop
    \/ mpc = "done" /\ mmode # "switch" /\ ReservationLoop

\* the steps of the send_request thread
SendRequest ==
    \/ S_HTest
    \/ S_HNew
    \/ S_HTimeout
    \/ \E h \in Hosts : S_HRecv(h)
    \/ SB_HGot
    \/ SO_HGot
    \/ SB_RTest
    \/ SB_RTimeout
    \/ \E k \in {"RRES", "RCAN"}, same \in BOOLEAN : SB_RRecv(k, same)
    \/ SB_RGot
    \/ SB_RSniffTimeout
    \/ \E k \in {"RRES", "RCAN"} : SB_RSniffRecv(k)
    \/ SB_REnd
    \/ S_DTest
    \/ S_DSend
    \/ S_DTimeout
    \/ \E k \in {"DWAIT", "DCAN"}, same \in BOOLEAN : S_DRecv(k, same)
    \/ SB_DGot
    \/ SB_DSniffTimeout
    \/ SO_DGot
    \/ SO_DWait
    \/ S_DChk
    \/ S_DWrite
    \/ S_DRet
    \/ SB_DEnd
    \/ SO_DEnd
    \/ S_FTest
    \/ S_FFail
    \/ S_FRet

\* the steps of the answering machine's thread
ConsReply == CB_DRES \/ CO_DRES

ConsNext ==
    \/ SendRequest
    \/ ConsReply
    \/ \E p \in {dreqCur, dreqLate} : DresArrives(p)

-----------------------------------------------------------------------------
(* Specifications.  Every initial predicate fixes all the variables: the   *)
(* ones of its own subsystem as the program constructs them, the others at *)
(* their idle values.                                                      *)

IdleLpc == [t \in LThreads |-> "idle"]
IdleLcos == [t \in LThreads |-> 1]
IdleLok == [t \in LThreads |-> FALSE]
IdleRequests == [i \in AllIds |-> IF i = Placeholder THEN "history" ELSE "absent"]
IdleGpc == [t \in GThreads |-> "start"]
IdleGid == [t \in GThreads |-> Placeholder]
IdlePcos == [r \in PReqs |-> 1]
IdlePst == [r \in PReqs |-> "none"]
IdlePfreed == [r \in PReqs |-> TRUE]
IdlePthread == [r \in PReqs |-> FALSE]
IdlePev == [r \in PReqs |-> "absent"]
IdleThreads == [r \in PReqs |-> [i \in Slots |-> Off]]
IdleCount == [r \in PReqs |-> 0]
IdleAttDres == [a \in Attempts |-> 0]
IdleAttState == [a \in Attempts |-> "absent"]

\* the ledger as the simulator module constructs it; RESOURCE_LIMIT and
\* SIMULATOR_ACTIVE are read from the configuration
InitLedger ==
    /\ reserved = Zero3
    /\ limitPct \in LimitPcts
    /\ simOn \in BOOLEAN
    /\ measured = TOTAL
    /\ lockHolder = 0
    /\ lpc = IdleLpc
    /\ lcos = IdleLcos
    /\ lok = IdleLok
    /\ requests = IdleRequests
    /\ gpc = IdleGpc
    /\ gid = IdleGid
    /\ gclobber = {}
    /\ mode = "BCST"
    /\ isResource = TRUE
    /\ pcos = IdlePcos
    /\ pst = IdlePst
    /\ pfreed = IdlePfreed
    /\ pthread = IdlePthread
    /\ presult = IdlePthread
    /\ pev = IdlePev
    /\ rr = IdleThreads
    /\ rd = IdleThreads
    /\ preply = "none"
    /\ budget = 0
    /\ nres = IdleCount
    /\ nfree = IdleCount
    /\ nexec = IdleCount
    /\ cpc = "h_test"
    /\ hreq_rt = PROTO_RETRIES
    /\ rreq_rt = 0
    /\ dreq_rt = 0
    /\ hres = "none"
    /\ rres = NoPkt
    /\ dres = NoPkt
    /\ attempt_no = 0
    /\ req_state = "none"
    /\ req_host = "none"
    /\ req_dres_at = 0
    /\ req_late = FALSE
    /\ att_dres_at = IdleAttDres
    /\ cev = "absent"
    /\ clock = 0
    /\ inbox = NoDreq
    /\ dreqCur = NoDreq
    /\ dreqLate = NoDreq
    /\ ret = Running
    /\ att_state = IdleAttState
    /\ rin = "none"
    /\ creply = NoSent
    /\ mmode = "resource"
    /\ mpc = "done"
    /\ connected = TRUE
    /\ mcode = NoCode
    /\ console = IdleConsole
    /\ tries = 0
    /\ nudp = 1
    /\ nspec = 1
    /\ upc = "test"
    /\ spc = "test"
    /\ registered = TRUE
    /\ ndel = 0
    /\ rkind = "none"
    /\ rleft = 0
    /\ rpc = "done"
    /\ rsent = 0
    /\ aq = NoPacket
    /\ ap = NoPacket
    /\ ares = "none"
    /\ xpkt = NoArrival
    /\ xerr = "unset"

SpecLedger == InitLedger /\ [][LedgerNext]_vars

\* the registry as settings.py constructs it: the placeholder '_' and the
\* ids of the requests already in the database
InitId ==
    /\ reserved = Zero3
    /\ limitPct = 50
    /\ simOn = TRUE
    /\ measured = TOTAL
    /\ lockHolder = 0
    /\ lpc = IdleLpc
    /\ lcos = IdleLcos
    /\ lok = IdleLok
    /\ requests \in { [i \in AllIds |->
                          IF i = Placeholder \/ i \in hist
                          THEN "history" ELSE "absent"] :
                       hist \in (SUBSET Ids) \ {Ids} }
    /\ gpc = IdleGpc
    /\ gid = IdleGid
    /\ gclobber = {}
    /\ mode = "BCST"
    /\ isResource = TRUE
    /\ pcos = IdlePcos
    /\ pst = IdlePst
    /\ pfreed = IdlePfreed
    /\ pthread = IdlePthread
    /\ presult = IdlePthread
    /\ pev = IdlePev
    /\ rr = IdleThreads
    /\ rd = IdleThreads
    /\ preply = "none"
    /\ budget = 0
    /\ nres = IdleCount
    /\ nfree = IdleCount
    /\ nexec = IdleCount
    /\ cpc = "h_test"
    /\ hreq_rt = PROTO_RETRIES
    /\ rreq_rt = 0
    /\ dreq_rt = 0
    /\ hres = "none"
    /\ rres = NoPkt
    /\ dres = NoPkt
    /\ attempt_no = 0
    /\ req_state = "none"
    /\ req_host = "none"
    /\ req_dres_at = 0
    /\ req_late = FALSE
    /\ att_dres_at = IdleAttDres
    /\ cev = "absent"
    /\ clock = 0
    /\ inbox = NoDreq
    /\ dreqCur = NoDreq
    /\ dreqLate = NoDreq
    /\ ret = Running
    /\ att_state = IdleAttState
    /\ rin = "none"
    /\ creply = NoSent
    /\ mmode = "resource"
    /\ mpc = "done"
    /\ connected = TRUE
    /\ mcode = NoCode
    /\ console = IdleConsole
    /\ tries = 0
    /\ nudp = 1
    /\ nspec = 1
    /\ upc = "test"
    /\ spc = "test"
    /\ registered = TRUE
    /\ ndel = 0
    /\ rkind = "none"
    /\ rleft = 0
    /\ rpc = "done"
    /\ rsent = 0
    /\ aq = NoPacket
    /\ ap = NoPacket
    /\ ares = "none"
    /\ xpkt = NoArrival
    /\ xerr = "unset"

SpecId == InitId /\ [][IdNext]_vars

\* a provider with empty request tables and an empty ledger; the mode and
\* the class of service of each consumer's request come from outside
InitProv ==
    /\ reserved = Zero3
    /\ limitPct = 50
    /\ simOn \in BOOLEAN
    /\ measured = TOTAL
    /\ lockHolder = 0
    /\ lpc = IdleLpc
    /\ lcos = IdleLcos
    /\ lok = IdleLok
    /\ requests = IdleRequests
    /\ gpc = IdleGpc
    /\ gid = IdleGid
    /\ gclobber = {}
    /\ mode \in {"BCST", "ORCH"}
    /\ isResource = TRUE
    /\ pcos \in [PReqs -> CoSIds]
    /\ pst = IdlePst
    /\ pfreed = IdlePfreed
    /\ pthread = IdlePthread
    /\ presult = IdlePthread
    /\ pev = IdlePev
    /\ rr = IdleThreads
    /\ rd = IdleThreads
    /\ preply = "none"
    /\ budget = MaxPkts
    /\ nres = IdleCount
    /\ nfree = IdleCount
    /\ nexec = IdleCount
    /\ cpc = "h_test"
    /\ hreq_rt = PROTO_RETRIES
    /\ rreq_rt = 0
    /\ dreq_rt = 0
    /\ hres = "none"
    /\ rres = NoPkt
    /\ dres = NoPkt
    /\ attempt_no = 0
    /\ req_state = "none"
    /\ req_host = "none"
    /\ req_dres_at = 0
    /\ req_late = FALSE
    /\ att_dres_at = IdleAttDres
    /\ cev = "absent"
    /\ clock = 0
    /\ inbox = NoDreq
    /\ dreqCur = NoDreq
    /\ dreqLate = NoDreq
    /\ ret = Running
    /\ att_state = IdleAttState
    /\ rin = "none"
    /\ creply = NoSent
    /\ mmode = "resource"
    /\ mpc = "done"
    /\ connected = TRUE
    /\ mcode = NoCode
    /\ console = IdleConsole
    /\ tries = 0
    /\ nudp = 1
    /\ nspec = 1
    /\ upc = "test"
    /\ spc = "test"
    /\ registered = TRUE
    /\ ndel = 0
    /\ rkind = "none"
    /\ rleft = 0
    /\ rpc = "done"
    /\ rsent = 0
    /\ aq = NoPacket
    /\ ap = NoPacket
    /\ ares = "none"
    /\ xpkt = NoArrival
    /\ xerr = "unset"

SpecProv == InitProv /\ [][ProvNext]_vars

\* the threads of the provider are scheduled fairly (the interpreter lets
\* every runnable thread run); packets arrive or not as the peers decide
SpecProvFair == InitProv /\ [][ProvNext]_vars /\ WF_vars(ProvThreads)

\* one send_request call has registered its Request and is about to enter
\* the host loop; the node runs in either mode
InitCons ==
    /\ reserved = Zero3
    /\ limitPct = 50
    /\ simOn = TRUE
    /\ measured = TOTAL
    /\ lockHolder = 0
    /\ lpc = IdleLpc
    /\ lcos = IdleLcos
    /\ lok = IdleLok
    /\ requests = IdleRequests
    /\ gpc = IdleGpc
    /\ gid = IdleGid
    /\ gclobber = {}
    /\ mode \in {"BCST", "ORCH"}
    /\ isResource = TRUE
    /\ pcos = IdlePcos
    /\ pst = IdlePst
    /\ pfreed = IdlePfreed
    /\ pthread = IdlePthread
    /\ presult = IdlePthread
    /\ pev = IdlePev
    /\ rr = IdleThreads
    /\ rd = IdleThreads
    /\ preply = "none"
    /\ budget = 0
    /\ nres = IdleCount
    /\ nfree = IdleCount
    /\ nexec = IdleCount
    /\ cpc = "h_test"
    /\ hreq_rt = PROTO_RETRIES
    /\ rreq_rt = 0
    /\ dreq_rt = 0
    /\ hres = "none"
    /\ rres = NoPkt
    /\ dres = NoPkt
    /\ attempt_no = 0
    /\ req_state = "none"
    /\ req_host = "none"
    /\ req_dres_at = 0
    /\ req_late = FALSE
    /\ att_dres_at = IdleAttDres
    /\ cev = "absent"
    /\ clock = 0
    /\ inbox = NoDreq
    /\ dreqCur = NoDreq
    /\ dreqLate = NoDreq
    /\ ret = Running
    /\ att_state = IdleAttState
    /\ rin = "none"
    /\ creply = NoSent
    /\ mmode = "resource"
    /\ mpc = "done"
    /\ connected = TRUE
    /\ mcode = NoCode
    /\ console = IdleConsole
    /\ tries = 0
    /\ nudp = 1
    /\ nspec = 1
    /\ upc = "test"
    /\ spc = "test"
    /\ registered = TRUE
    /\ ndel = 0
    /\ rkind = "none"
    /\ rleft = 0
    /\ rpc = "done"
    /\ rsent = 0
    /\ aq = NoPacket
    /\ ap = NoPacket
    /\ ares = "none"
    /\ xpkt = NoArrival
    /\ xerr = "unset"

SpecCons == InitCons /\ [][ConsNext]_vars

\* the send_request thread and the answering machine's thread are
\* scheduled fairly; whether and what the peers send is up to them
SpecConsFair ==
    InitCons /\ [][ConsNext]_vars /\ WF_vars(SendRequest) /\ WF_vars(ConsReply)

\* broadcast mode, second attempt of a send_request call: the RREQs of the
\* first attempt went to the other host and timed out, the HRES of this
\* attempt chose req.host and the reservation loop is about to start
InitResp ==
    /\ reserved = Zero3
    /\ limitPct = 50
    /\ simOn = TRUE
    /\ measured = TOTAL
    /\ lockHolder = 0
    /\ lpc = IdleLpc
    /\ lcos = IdleLcos
    /\ lok = IdleLok
    /\ requests = IdleRequests
    /\ gpc = IdleGpc
    /\ gid = IdleGid
    /\ gclobber = {}
    /\ mode = "BCST"
    /\ isResource = TRUE
    /\ pcos = IdlePcos
    /\ pst = IdlePst
    /\ pfreed = IdlePfreed
    /\ pthread = IdlePthread
    /\ presult = IdlePthread
    /\ pev = IdlePev
    /\ rr = IdleThreads
    /\ rd = IdleThreads
    /\ preply = "none"
    /\ budget = 0
    /\ nres = IdleCount
    /\ nfree = IdleCount
    /\ nexec = IdleCount
    /\ cpc = "r_test"
    /\ hreq_rt = PROTO_RETRIES
    /\ rreq_rt = PROTO_RETRIES
    /\ dreq_rt = 0
    /\ hres \in Hosts
    /\ rres = NoPkt
    /\ dres = NoPkt
    /\ attempt_no = 2
    /\ req_state = "RREQ"
    /\ req_host = hres
    /\ req_dres_at = 0
    /\ req_late = FALSE
    /\ att_dres_at = IdleAttDres
    /\ cev = "absent"
    /\ clock = 0
    /\ inbox = NoDreq
    /\ dreqCur = NoDreq
    /\ dreqLate = NoDreq
    /\ ret = Running
    /\ att_state = [a \in Attempts |-> IF a = 1 THEN "past"
                                       ELSE IF a = 2 THEN "RREQ" ELSE "absent"]
    /\ rin = "none"
    /\ creply = NoSent
    /\ mmode = "resource"
    /\ mpc = "done"
    /\ connected = TRUE
    /\ mcode = NoCode
    /\ console = IdleConsole
    /\ tries = 0
    /\ nudp = 1
    /\ nspec = 1
    /\ upc = "test"
    /\ spc = "test"
    /\ registered = TRUE
    /\ ndel = 0
    /\ rkind = "none"
    /\ rleft = 0
    /\ rpc = "done"
    /\ rsent = 0
    /\ aq = NoPacket
    /\ ap = NoPacket
    /\ ares = "none"
    /\ xpkt = NoArrival
    /\ xerr = "unset"

SpecResp == InitResp /\ [][RespNext]_vars

\* Manager.connect(mode) has just been called; a send_request call follows
\* once it has returned
InitMgr ==
    /\ reserved = Zero3
    /\ limitPct = 50
    /\ simOn = TRUE
    /\ measured = TOTAL
    /\ lockHolder = 0
    /\ lpc = IdleLpc
    /\ lcos = IdleLcos
    /\ lok = IdleLok
    /\ requests = IdleRequests
    /\ gpc = IdleGpc
    /\ gid = IdleGid
    /\ gclobber = {}
    /\ mode \in {"BCST", "ORCH"}
    /\ isResource = TRUE
    /\ pcos = IdlePcos
    /\ pst = IdlePst
    /\ pfreed = IdlePfreed
    /\ pthread = IdlePthread
    /\ presult = IdlePthread
    /\ pev = IdlePev
    /\ rr = IdleThreads
    /\ rd = IdleThreads
    /\ preply = "none"
    /\ budget = 0
    /\ nres = IdleCount
    /\ nfree = IdleCount
    /\ nexec = IdleCount
    /\ cpc = "h_test"
    /\ hreq_rt = PROTO_RETRIES
    /\ rreq_rt = 0
    /\ dreq_rt = 0
    /\ hres = "none"
    /\ rres = NoPkt
    /\ dres = NoPkt
    /\ attempt_no = 0
    /\ req_state = "none"
    /\ req_host = "none"
    /\ req_dres_at = 0
    /\ req_late = FALSE
    /\ att_dres_at = IdleAttDres
    /\ cev = "absent"
    /\ clock = 0
    /\ inbox = NoDreq
    /\ dreqCur = NoDreq
    /\ dreqLate = NoDreq
    /\ ret = Running
    /\ att_state = IdleAttState
    /\ rin = "none"
    /\ creply = NoSent
    /\ mmode \in {"client", "resource", "switch"}
    /\ mpc = "conf"
    /\ connected = FALSE
    /\ mcode = NoCode
    /\ console = IdleConsole
    /\ tries = 0
    /\ nudp = 0
    /\ nspec = 0
    /\ upc = "off"
    /\ spc = "off"
    /\ registered = FALSE
    /\ ndel = 0
    /\ rkind = "none"
    /\ rleft = 0
    /\ rpc = "done"
    /\ rsent = 0
    /\ aq = NoPacket
    /\ ap = NoPacket
    /\ ares = "none"
    /\ xpkt = NoArrival
    /\ xerr = "unset"

SpecMgr == InitMgr /\ [][MgrNext]_vars

SpecLoops == InitMgr /\ [][LoopNext]_vars

\* the threads of the two loops keep running, and the calls they make
\* return
SpecLoopsFair ==
    InitMgr /\ [][LoopNext]_vars /\ WF_vars(UdpLoop) /\ WF_vars(SpecLoop)

-----------------------------------------------------------------------------
(* Properties                                                              *)

\* total * (1 - threshold), times 100: the most the ledger may commit
Cap100(d) == TOTAL[d] * limitPct

\* C3: after any interleaving of reserve_resources and free_resources calls
\* from concurrent threads, every component of _reserved is at least 0 and
\* at most total * (1 - threshold).
C3_LedgerWithinBounds ==
    \A d \in Dims : reserved[d] >= 0 /\ reserved[d] * 100 <= Cap100(d)

\* a reserve_resources call was refused while the ledger stood exactly at
\* its cap on the cpu dimension, with another thread waiting for the lock
C3_Witness ==
    /\ reserved["cpu"] > 0
    /\ reserved["cpu"] * 100 = Cap100("cpu")
    /\ \E t \in LThreads : lpc[t] = "r_unlock" /\ ~lok[t]
    /\ \E t \in LThreads : lpc[t] \in {"r_lock", "f_lock"}

\* C9: two send_request calls running in parallel never use the same id
\* and never overwrite a registry entry (the id generated is absent from
\* the registry when the Request is inserted).
C9_DistinctIds ==
    /\ gclobber = {}
    /\ \A t1, t2 \in GThreads :
         (t1 # t2 /\ gpc[t1] = "sending" /\ gpc[t2] = "sending")
            => gid[t1] # gid[t2]

\* a reservation of provider request r succeeded and no free_resources call
\* has answered it yet
Held(r) == nres[r] > nfree[r]

HeldCount(r) == IF nres[r] > nfree[r] THEN nres[r] - nfree[r] ELSE 0

RECURSIVE SumHeld(_, _)
SumHeld(S, d) ==
    IF S = {} THEN 0
    ELSE LET r == CHOOSE x \in S : TRUE
         IN HeldCount(r) * MinOf(pcos[r])[d] + SumHeld(S \ {r}, d)

\* C1: on a provider, in both modes and in every interleaving of make_reply
\* with the _respond_resources and _respond_data threads, free_resources is
\* called at most once for each successful reserve_resources of a request.
C1_FreeAtMostOncePerReserve == \A r \in PReqs : nfree[r] <= nres[r]

\* C2: every reservation that a provider made successfully is eventually
\* released, whatever the consumer does afterwards: under fair scheduling of
\* the provider's threads a request with a held reservation always reaches a
\* state where free_resources has been called for it.
C2_EventuallyReleased == \A r \in PReqs : Held(r) ~> ~Held(r)

\* C4: in every reachable provider state _reserved equals, per dimension,
\* the sum of the CoS minimums of the provider requests whose reservation
\* succeeded and has not yet been released.
C4_LedgerIsSumOfHeld == \A d \in Dims : reserved[d] = SumHeld(PReqs, d)

\* C10: for each provider request the executor is started at most once: no
\* sequence of packets and timer expiries makes the provider spawn a second
\* _respond_data thread for the same request.
C10_ExecutorStartedOnce == \A r \in PReqs : nexec[r] <= 1

\* the attempts of the request that have dres_at set
WithDres == {a \in Attempts : att_dres_at[a] # 0}

\* C5: for every consumer Request that reaches state DRES, exactly one of
\* its Attempts has dres_at set and req.dres_at equals that attempt's
\* dres_at, in every interleaving of send_request with the responder's
\* late-DRES path.
C5_OneAttemptHasDres ==
    req_state = "DRES" =>
        /\ Cardinality(WithDres) = 1
        /\ \A a \in WithDres : att_dres_at[a] = req_dres_at

\* C6: when send_request returns, it returns None if and only if
\* req.dres_at is unset, and then req.state = FAIL; otherwise it returns
\* req.result and req.state = DRES.
C6_ReturnMatchesState ==
    ret.value # "running" =>
        /\ (ret.value = "None") <=> ~ret.dres
        /\ ~ret.dres => ret.state = "FAIL"
        /\ ret.dres => ret.state = "DRES"

\* C7: every call to send_request eventually returns with req.state in
\* {DRES, FAIL}, whatever replies the peers send or withhold.
C7_SendRequestReturns ==
    <>(ret.value # "running" /\ ret.state \in {"DRES", "FAIL"})

\* C8: the number of Attempts that one send_request call opens never
\* exceeds PROTO_RETRIES squared.
C8_AttemptsBounded == attempt_no <= PROTO_RETRIES * PROTO_RETRIES

\* C11: delivering the same DREQ again to a provider whose request is in
\* state DRES yields a DRES packet carrying the cached result, starts no new
\* execution, and leaves _reserved and the request's state and freed flag
\* unchanged.
C11_DreqInDresIdempotent ==
    [][\A r \in PReqs :
          ((PB_DREQ(r) \/ PO_DREQ(r)) /\ pst[r] = "DRES") =>
              /\ preply' = "DRES"
              /\ presult[r] /\ presult' = presult
              /\ nexec' = nexec /\ rd' = rd
              /\ reserved' = reserved
              /\ pst' = pst /\ pfreed' = pfreed]_vars

\* a DREQ was delivered to a request in state DRES and answered
C11_Witness ==
    /\ preply = "DRES"
    /\ \E r \in PReqs : pst[r] = "DRES" /\ nexec[r] = 1 /\ presult[r]

\* C12: a DACK received for a provider request frees its reservation and
\* sets freed only if the reservation is still held; a DACK delivered after
\* the reservation was freed changes neither _reserved nor the provider
\* request and produces no reply.
C12_DackFreesOnlyHeld ==
    [][\A r \in PReqs :
          ((PB_DACK(r) \/ PO_DACK(r)) /\ ~Held(r)) =>
              /\ reserved' = reserved /\ nfree' = nfree
              /\ pst' = pst /\ pfreed' = pfreed
              /\ preply' = "none"]_vars

\* C16: reserve_resources returns True exactly when, at the moment it holds
\* the ledger lock, free - req.min >= total * threshold in all three
\* dimensions, and then adds req.min to _reserved; when it returns False,
\* _reserved is unchanged.
C16_ReserveExact ==
    [][\A t \in LThreads :
          /\ LReserveTest(t) =>
                /\ lockHolder = t
                /\ reserved' = reserved
                /\ lok'[t] <=>
                     \A d \in Dims :
                        (Avail[d] - reserved[d] - MinOf(lcos[t])[d]) * 100
                            >= TOTAL[d] * (100 - limitPct)
          /\ LReserveAdd(t) =>
                /\ lockHolder = t /\ lok[t]
                /\ \A d \in Dims :
                     reserved'[d] = reserved[d] + MinOf(lcos[t])[d]
          /\ (lpc[t] = "r_unlock" /\ lockHolder = t) => reserved' = reserved]_vars

\* a reservation succeeded in real mode on a host whose measured free
\* memory is below its total, and one was refused
C16_Witness ==
    /\ ~simOn
    /\ \E t \in LThreads :
          /\ lpc[t] = "r_unlock" /\ lok[t]
          /\ reserved = AddReserved(Zero3, MinOf(lcos[t]))
    /\ \E u \in LThreads : lpc[u] \in {"r_lock", "c_lock", "f_lock"}

\* C17: get_resources never returns a negative value in any dimension, in
\* simulation mode and in real mode.
C17_GetResourcesNonNegative ==
    \A d \in Dims : GetResources(reserved, Avail)[d] >= 0

\* the keys of req.attempts
AttKeys == {a \in Attempts : att_state[a] # "absent"}

\* C13: at every point of a send_request run the keys of req.attempts are
\* exactly 1..n, n being the number of attempts opened so far, and every
\* HREQ sent carries an attempt_no strictly greater than that of every
\* earlier HREQ of the request.
C13_AttemptNumbering ==
    /\ [](AttKeys = 1 .. attempt_no)
    /\ [][/\ attempt_no' >= attempt_no
          /\ S_HNew => /\ attempt_no' > attempt_no
                       /\ att_state[attempt_no'] = "absent"
                       /\ att_state'[attempt_no'] = "HREQ"]_vars

\* the third HREQ of a request is out
C13_Witness ==
    /\ cpc = "h_sr1"
    /\ attempt_no = 3 /\ AttKeys = {1, 2, 3} /\ att_state[3] = "HREQ"

\* position of an attempt state in the order HREQ, RREQ, DREQ, DRES (the
\* cancelled states RCAN and DCAN are outside the order)
Rank(st) ==
    CASE st = "HREQ" -> 1
      [] st = "RREQ" -> 2
      [] st = "DREQ" -> 3
      [] st = "DRES" -> 4
      [] OTHER -> 0

\* C14: the state of a single Attempt only moves forward along HREQ, RREQ,
\* DREQ, DRES: no write of send_request or of the responder moves it to an
\* earlier state of that order or changes it after it was closed.
C14_AttemptStateForward ==
    [][\A a \in Attempts :
          (att_state'[a] # "past") =>
              /\ att_state[a] = "DRES" => att_state'[a] = "DRES"
              /\ (Rank(att_state[a]) > 0 /\ Rank(att_state'[a]) > 0) =>
                     Rank(att_state[a]) <= Rank(att_state'[a])]_vars

\* C15: FAIL is terminal for a consumer Request: once req.state is FAIL no
\* later event changes req.state again.
C15_FailIsTerminal ==
    [][req_state = "FAIL" => req_state' = "FAIL"]_vars

\* C18: in orchestrator mode the consumer sends HREQ to the decoy MAC/IP,
\* every DREQ to the host_mac/host_ip of the HRES received for that
\* attempt, and every DACK and DCAN to the decoy orchestrator.
C18_OrchAddressing ==
    [][mode = "ORCH" =>
          /\ S_HNew => HreqPkt = Pkt("HREQ", "orch", "orch")
          /\ S_DSend => /\ DreqPkt = Pkt("DREQ", hres, hres)
                        /\ dreqCur'.h = hres
          /\ S_DWrite => DackPkt = Pkt("DACK", "orch", "orch")
          /\ CO_DRES => /\ DresReply(inbox.h).kind \in {"DACK", "DCAN"}
                        /\ DresReply(inbox.h).mac = "orch"
                        /\ DresReply(inbox.h).ip = "orch"]_vars

C20_AcceptedIsFinal ==
    [][req_dres_at # 0 =>
          /\ req_state = "DRES" /\ req_state' = "DRES"
          /\ req_host' = req_host
          /\ req_dres_at' = req_dres_at
          /\ (CB_DRES \/ CO_DRES) =>
                 DresReply(inbox.h).kind =
                     IF inbox.h = req_host THEN "DACK" ELSE "DCAN"]_vars

\* the provider handles a DREQ for request r that it had cancelled and not
\* executed
LateDreq(r) ==
    /\ PB_DREQ(r) \/ PO_DREQ(r)
    /\ Cancelled(r) /\ ~AlreadyExecuted(r)

\* C21: a DREQ for a cancelled request re-evaluates check_resources; when it
\* passes the request is reserved again and a reservation is held when the
\* execution starts; when it fails the reply is DCAN, nothing is reserved and
\* no execution starts.
C21_LateDreqReservesOrCancels ==
    [][\A r \in PReqs : LateDreq(r) =>
          IF PCheck(r)
          THEN /\ pst'[r] = (IF mode = "ORCH" THEN "DREQ" ELSE "RRES")
               /\ nexec'[r] = nexec[r] + 1
               /\ Held(r)'
          ELSE /\ preply' = "DCAN"
               /\ nres'[r] = nres[r]
               /\ nexec'[r] = nexec[r]
               /\ reserved' = reserved]_vars

\* C22: in broadcast mode the consumer's responder answers an RRES that
\* comes from a host other than the request's current host with an RCAN to
\* that host (the provider that receives it while it holds the reservation
\* frees it and returns the request to the cancelled state).
C22_LateRresAnsweredWithRcan ==
    [][(CB_RRES /\ rin # req_host) =>
          creply' = Pkt("RCAN", rin, rin)]_vars

RECURSIVE RresSentBy(_, _)
RresSentBy(r, S) ==
    IF S = {} THEN 0
    ELSE LET i == CHOOSE j \in S : TRUE
         IN  (IF rr[r][i].pc = "off" THEN 0
              ELSE PROTO_RETRIES - rr[r][i].retries)
             + RresSentBy(r, S \ {i})

\* _respond_resources threads of request r that found the wait timed out
\* and are about to free, set the state to HREQ and send the RCAN
Cancelling(r) == {i \in Slots : rr[r][i].pc \in {"to_free", "to_set"}}

\* C24: a broadcast-mode provider that has reserved for an RREQ and receives
\* neither a DREQ nor an RCAN sends the RRES at most PROTO_RETRIES times,
\* then frees the reservation, returns the request to the cancelled state
\* and sends an RCAN exactly once.
C24_RresBoundedOneRcan ==
    \A r \in PReqs :
        (mode = "BCST" /\ \A i \in Slots : rr[r][i].got = "none") =>
            /\ RresSentBy(r, Slots) <= PROTO_RETRIES
            /\ Cardinality(Cancelling(r)) <= 1

\* a _respond_resources thread of request r waits on the event for the DREQ
Waiting(r) == \E i \in Slots : rr[r][i].pc = "ev_wait"

\* C25: in orchestrator mode, after the orchestrator's RACK the provider
\* waits for the DREQ on an event: a DREQ that arrives within the window
\* keeps the reservation and starts the execution; when the window expires
\* the provider frees the reservation and sends an RCAN to the orchestrator.
C25_EventWindow ==
    [][\A r \in PReqs :
          /\ (PO_DREQ(r) /\ pst[r] = "RRES" /\ Waiting(r)) =>
                 /\ pev'[r] = "set"
                 /\ reserved' = reserved
                 /\ nexec'[r] = nexec[r] + 1
          /\ \A i \in Slots :
                 /\ (ORR_EvWait(r, i) /\ pev[r] = "set") =>
                        rr'[r][i].pc = "off"
                 /\ (ORR_EvWait(r, i) /\ pev[r] # "set") =>
                        rr'[r][i].pc = "ev_free"
                 /\ ORR_EvSet(r, i) => rr'[r][i].pc = "send_rcan"]_vars

\* C26: however many HREQ or RREQ packets a provider receives for the same
\* (consumer_ip, req_id), it reserves at most once while that reservation
\* is outstanding: an HREQ or RREQ handled while the reservation is held
\* adds nothing to _reserved, and a duplicate HREQ in state HRES whose check
\* passes only repeats the HRES.
C26_ReserveOncePerRequest ==
    [][\A r \in PReqs :
          /\ ((PB_HREQ(r) \/ PB_RREQ(r) \/ PO_RREQ(r)) /\ Held(r)) =>
                 (reserved' = reserved /\ nres'[r] = nres[r])
          /\ (PB_HREQ(r) /\ pst[r] = "HRES" /\ PCheck(r)) =>
                 (preply' = "HRES" /\ pst'[r] = "HRES")]_vars

\* C27: send_request sets the late flag of a request only when the retry
\* budget of the data exchange ran out through timeouts, not when the data
\* phase ended with a DCAN or a DRES, and once set the flag stays set.
C27_LateOnlyAfterTimeouts ==
    [][/\ req_late => req_late'
       /\ (~req_late /\ req_late') =>
              (dreq_rt = 0 /\ dres.kind \notin {"DCAN", "DRES"})]_vars

\* send_request sends a packet: the HREQ of a new attempt, an RREQ or a DREQ
Sends ==
    \/ S_HNew
    \/ SB_RTest /\ cpc' = "r_sr1"
    \/ S_DSend

\* C28: after Manager.disconnect has set connected to false, a send_request
\* call still in progress sends no further HREQ, RREQ or DREQ.
C28_NoSendAfterDisconnect ==
    [][(mpc = "done" /\ ~connected) => ~Sends]_vars

\* C29: in client and resource mode connect keeps calling add_node until one
\* call succeeds; it marks the agent connected and starts the UDP keepalive
\* and the spec reporter only at that success, each exactly once; an answer
\* with status 303 ends the agent, not connected and with neither loop
\* started.
C29_JoinLoop ==
    [][mmode # "switch" =>
          /\ (connected' /\ ~connected) => AddNode(Success)
          /\ (nudp' # nudp \/ nspec' # nspec) =>
                 /\ AddNode(Success)
                 /\ nudp = 0 /\ nudp' = 1
                 /\ nspec = 0 /\ nspec' = 1
          /\ AddNode(Success) => (connected' /\ mpc' = "done")
          /\ (\E c \in FailCodes : AddNode(c)) => (mpc' = "join" /\ ~connected')
          /\ AddNode(Exists) =>
                 (mpc' = "exited" /\ ~connected' /\ nudp' = 0 /\ nspec' = 0)]_vars

\* connect has returned after add_node failed several times and then
\* succeeded: the agent is connected and each loop was started once
C29_Witness ==
    /\ mmode = "client" /\ mpc = "done" /\ connected
    /\ tries = MaxTries
    /\ nudp = 1 /\ nspec = 1

\* C30: during the configuration and join retry loops each distinct
\* (status, error) failure pair is written to the console at most once.
C30_ConsoleOncePerPair ==
    \A c \in FailCodes : console[c] <= 1

\* a step of the hold timer of request r: the timeout path of
\* _respond_resources (either mode) or the expiry of the RACK-to-DREQ wait
HoldTimer(r) ==
    \E i \in Slots :
        \/ BRR_ToFree(r, i) \/ BRR_ToSet(r, i)
        \/ rr[r][i].pc = "to_free" /\ ORR_Free(r, i)
        \/ ORR_EvFree(r, i) \/ ORR_EvSet(r, i)

\* C34: once the DREQ that starts the executor of a provider request was
\* accepted, no step of the hold timer (a _respond_resources thread, one
\* spawned by a duplicate RREQ included, or the RACK-to-DREQ event wait)
\* releases the reservation or marks the request cancelled.
C34_HoldTimerStopsAtExecution ==
    [][\A r \in PReqs :
          (nexec[r] >= 1 /\ HoldTimer(r)) =>
              /\ nfree'[r] = nfree[r]
              /\ pst'[r] = pst[r]]_vars

\* the _respond_data thread of r is in its DRES re-send loop
Resending(r) == \E i \in Slots : rd[r][i].pc = "loop"

\* C35: in orchestrator mode a DREQ received while _respond_data re-sends
\* the DRES does not set the event the loop waits on: the loop ends only
\* on a DACK or DCAN or after PROTO_RETRIES sends, and the release at the
\* timeout is not cancelled by a retransmitted DREQ.
C35_DreqLeavesResendLoop ==
    [][\A r \in PReqs :
          (PO_DREQ(r) /\ Resending(r)) => pev'[r] = pev[r]]_vars

\* C36: for every provider request _freed is false exactly when the ledger
\* holds a reservation for it.
C36_FreedFlagMatchesLedger == \A r \in PReqs : ~pfreed[r] <=> Held(r)

\* the states the RREQ branch of the orchestrator-mode make_reply acts on
RreqServes(r) == pst[r] \in {"none", "RREQ", "RCAN", "RRES"}

\* the states the DREQ branch of the orchestrator-mode make_reply acts on
DreqServes(r) ==
    \/ AlreadyExecuted(r)
    \/ pst[r] = "DREQ" /\ pthread[r]
    \/ Cancelled(r)
    \/ pst[r] = "RRES"

\* C37: in orchestrator mode a provider request is never in a state that
\* neither the RREQ branch nor the DREQ branch of make_reply acts on: a
\* later RREQ or DREQ is always served or answered.
C37_AlwaysServable ==
    mode = "ORCH" => \A r \in PReqs : RreqServes(r) \/ DreqServes(r)

-----------------------------------------------------------------------------
(* The retry loops run with PROTOCOL_RETRIES as the parser leaves it: a     *)
(* float.  A counter is kept in units of 1/RetryScale, so that halves are   *)
(* integers of the model.                                                    *)

RetryScale == 2

MaxRetries == 3

FloatSpan == 8

\* float(getenv('PROTOCOL_RETRIES')): every number is accepted, negative
\* and non-integer ones included; here -1, -0.5, 0, 0.5, ..., MaxRetries
ParsedRetries == (0 - RetryScale) .. (MaxRetries * RetryScale)

\* the smallest value a counter takes: below it x - 1 = x in floating
\* point (the model's stand-in for -2^53)
FloatFloor == 0 - FloatSpan * RetryScale

\* retries -= 1
MinusOne(x) == IF x - RetryScale < FloatFloor THEN x ELSE x - RetryScale

\* the loops that count PROTO_RETRIES down: the provider's RRES and DRES
\* re-send loops of both modes, the consumer's HREQ, RREQ and DREQ loops
RetryLoops == {"bcst_rres", "bcst_dres", "orch_rres", "orch_dres",
               "hreq", "rreq", "dreq"}

\* one test of the loop condition when no reply has arrived, and, when it
\* is true, one iteration: the counter is decremented and a packet sent
RetryIteration(k) ==
    /\ rkind = k /\ rpc = "loop"
    /\ IF Truthy(rleft)
       THEN /\ rleft' = MinusOne(rleft)
            /\ rsent' = (rsent + 1) % 2
            /\ rpc' = "loop"
       ELSE /\ rleft' = rleft
            /\ rpc' = "done"
            /\ UNCHANGED rsent
    /\ UNCHANGED <<rkind, coreVars, ansVars, errVars>>

RetryNext == \E k \in RetryLoops : RetryIteration(k)

InitRetry ==
    /\ reserved = Zero3
    /\ limitPct = 50
    /\ simOn = TRUE
    /\ measured = TOTAL
    /\ lockHolder = 0
    /\ lpc = IdleLpc
    /\ lcos = IdleLcos
    /\ lok = IdleLok
    /\ requests = IdleRequests
    /\ gpc = IdleGpc
    /\ gid = IdleGid
    /\ gclobber = {}
    /\ mode = "BCST"
    /\ isResource = TRUE
    /\ pcos = IdlePcos
    /\ pst = IdlePst
    /\ pfreed = IdlePfreed
    /\ pthread = IdlePthread
    /\ presult = IdlePthread
    /\ pev = IdlePev
    /\ rr = IdleThreads
    /\ rd = IdleThreads
    /\ preply = "none"
    /\ budget = 0
    /\ nres = IdleCount
    /\ nfree = IdleCount
    /\ nexec = IdleCount
    /\ cpc = "h_test"
    /\ hreq_rt = PROTO_RETRIES
    /\ rreq_rt = 0
    /\ dreq_rt = 0
    /\ hres = "none"
    /\ rres = NoPkt
    /\ dres = NoPkt
    /\ attempt_no = 0
    /\ req_state = "none"
    /\ req_host = "none"
    /\ req_dres_at = 0
    /\ req_late = FALSE
    /\ att_dres_at = IdleAttDres
    /\ cev = "absent"
    /\ clock = 0
    /\ inbox = NoDreq
    /\ dreqCur = NoDreq
    /\ dreqLate = NoDreq
    /\ ret = Running
    /\ att_state = IdleAttState
    /\ rin = "none"
    /\ creply = NoSent
    /\ mmode = "resource"
    /\ mpc = "done"
    /\ connected = TRUE
    /\ mcode = NoCode
    /\ console = IdleConsole
    /\ tries = 0
    /\ nudp = 1
    /\ nspec = 1
    /\ upc = "test"
    /\ spc = "test"
    /\ registered = TRUE
    /\ ndel = 0
    /\ rkind \in RetryLoops
    /\ rleft \in ParsedRetries
    /\ rpc = "loop"
    /\ rsent = 0
    /\ aq = NoPacket
    /\ ap = NoPacket
    /\ ares = "none"
    /\ xpkt = NoArrival
    /\ xerr = "unset"

SpecRetry == InitRetry /\ [][RetryNext]_vars

\* the thread running the loop is scheduled again and again
SpecRetryFair == InitRetry /\ [][RetryNext]_vars /\ WF_vars(RetryNext)

\* C40: for every PROTOCOL_RETRIES value the parser accepts, each retry
\* loop that no reply interrupts ends after finitely many sends.
C40_RetryLoopsEnd == <>(rpc = "done")

-----------------------------------------------------------------------------
(* MyProtocol.hashret and MyProtocol.answers: how sr1, srp1 and sniff pair  *)
(* a received packet P with a packet Q that was sent.  A req_id is a        *)
(* sequence of characters, a match key a sequence of bytes.                 *)

\* proto_states
ProtoStates == {"HREQ", "HRES", "RREQ", "RRES", "RACK", "RCAN",
                "DREQ", "DRES", "DACK", "DCAN", "DWAIT"}

\* length of the req_id field (REQ_ID_LEN), as kept by the model
IdLen == 2

\* req_id values: every string of IdLen characters over a two-letter alphabet
ReqIds == [1 .. IdLen -> {"a", "1"}]

\* attempt_no values carried by the packets
AttemptNos == {1, 2, 11}

Packets == [state : ProtoStates, req_id : ReqIds, attempt_no : AttemptNos]

Digit(n) == <<"0", "1", "2", "3", "4", "5", "6", "7", "8", "9">>[n + 1]

\* str(n).encode() for n >= 0
RECURSIVE StrOf(_)
StrOf(n) == IF n < 10 THEN <<Digit(n)>>
            ELSE StrOf(n \div 10) \o <<Digit(n % 10)>>

\* MyProtocol.hashret: the req_id in the broadcast-mode class,
\* req_id + str(attempt_no).encode() + b'' in the orchestrator-mode class
Hashret(cls, p) ==
    IF cls = "BCST" THEN p.req_id ELSE p.req_id \o StrOf(p.attempt_no)

\* a variant of answers in which both classes take the same replies to an
\* RRES
AnswersSameTable(cls, self, other) ==
    \/ other.state = "HREQ" /\ self.state = "HRES"
    \/ other.state = "RREQ" /\ self.state \in {"RRES", "RCAN"}
    \/ other.state = "RRES" /\ self.state \in {"DREQ", "RACK", "RCAN"}
    \/ other.state = "DREQ" /\ self.state \in {"DRES", "DWAIT", "DCAN"}
    \/ other.state = "DRES" /\ self.state \in {"DACK", "DCAN"}

\* self.answers(other), for the class of mode cls
Answers(cls, self, other) ==
    \/ other.state = "HREQ" /\ self.state = "HRES"
    \/ other.state = "RREQ" /\ (self.state = "RRES" \/ self.state = "RCAN")
    \/ other.state = "RRES" /\
          IF cls = "BCST" THEN (self.state = "DREQ" \/ self.state = "RCAN")
          ELSE (self.state = "RACK" \/ self.state = "RCAN")
    \/ other.state = "DREQ" /\ (self.state = "DRES" \/ self.state = "DWAIT"
                                  \/ self.state = "DCAN")
    \/ other.state = "DRES" /\ (self.state = "DACK" \/ self.state = "DCAN")

\* the receive loop takes P as the answer to Q when P's key is the key Q
\* was stored under and P.answers(Q) is true
Accepts(cls, p, q) == Hashret(cls, p) = Hashret(cls, q) /\ Answers(cls, p, q)

\* P is received while Q is outstanding
Match ==
    /\ ares = "none"
    /\ ares' = IF Accepts(mode, ap, aq) THEN "answer" ELSE "other"
    /\ UNCHANGED <<aq, ap, coreVars, retryVars, errVars>>

AnsNext == Match

InitAns ==
    /\ reserved = Zero3
    /\ limitPct = 50
    /\ simOn = TRUE
    /\ measured = TOTAL
    /\ lockHolder = 0
    /\ lpc = IdleLpc
    /\ lcos = IdleLcos
    /\ lok = IdleLok
    /\ requests = IdleRequests
    /\ gpc = IdleGpc
    /\ gid = IdleGid
    /\ gclobber = {}
    /\ mode \in {"BCST", "ORCH"}
    /\ isResource = TRUE
    /\ pcos = IdlePcos
    /\ pst = IdlePst
    /\ pfreed = IdlePfreed
    /\ pthread = IdlePthread
    /\ presult = IdlePthread
    /\ pev = IdlePev
    /\ rr = IdleThreads
    /\ rd = IdleThreads
    /\ preply = "none"
    /\ budget = 0
    /\ nres = IdleCount
    /\ nfree = IdleCount
    /\ nexec = IdleCount
    /\ cpc = "h_test"
    /\ hreq_rt = PROTO_RETRIES
    /\ rreq_rt = 0
    /\ dreq_rt = 0
    /\ hres = "none"
    /\ rres = NoPkt
    /\ dres = NoPkt
    /\ attempt_no = 0
    /\ req_state = "none"
    /\ req_host = "none"
    /\ req_dres_at = 0
    /\ req_late = FALSE
    /\ att_dres_at = IdleAttDres
    /\ cev = "absent"
    /\ clock = 0
    /\ inbox = NoDreq
    /\ dreqCur = NoDreq
    /\ dreqLate = NoDreq
    /\ ret = Running
    /\ att_state = IdleAttState
    /\ rin = "none"
    /\ creply = NoSent
    /\ mmode = "resource"
    /\ mpc = "done"
    /\ connected = TRUE
    /\ mcode = NoCode
    /\ console = IdleConsole
    /\ tries = 0
    /\ nudp = 1
    /\ nspec = 1
    /\ upc = "test"
    /\ spc = "test"
    /\ registered = TRUE
    /\ ndel = 0
    /\ rkind = "none"
    /\ rleft = 0
    /\ rpc = "done"
    /\ rsent = 0
    /\ aq \in Packets
    /\ ap \in Packets
    /\ ares = "none"
    /\ xpkt = NoArrival
    /\ xerr = "unset"

SpecAns == InitAns /\ [][AnsNext]_vars

-----------------------------------------------------------------------------
(* A node that was not started in resource mode: IS_RESOURCE is false, the  *)
(* answering machine runs all the same.  No HREQ creates a request in       *)
(* broadcast mode, so the threads of that mode never start.                 *)

NoResNext == ProvPackets \/ OrchThreads

InitNoRes ==
    /\ reserved = Zero3
    /\ limitPct = 50
    /\ simOn \in BOOLEAN
    /\ measured = TOTAL
    /\ lockHolder = 0
    /\ lpc = IdleLpc
    /\ lcos = IdleLcos
    /\ lok = IdleLok
    /\ requests = IdleRequests
    /\ gpc = IdleGpc
    /\ gid = IdleGid
    /\ gclobber = {}
    /\ mode \in {"BCST", "ORCH"}
    /\ isResource = FALSE
    /\ pcos \in [PReqs -> AllCoSIds]
    /\ pst = IdlePst
    /\ pfreed = IdlePfreed
    /\ pthread = IdlePthread
    /\ presult = IdlePthread
    /\ pev = IdlePev
    /\ rr = IdleThreads
    /\ rd = IdleThreads
    /\ preply = "none"
    /\ budget = MaxPkts
    /\ nres = IdleCount
    /\ nfree = IdleCount
    /\ nexec = IdleCount
    /\ cpc = "h_test"
    /\ hreq_rt = PROTO_RETRIES
    /\ rreq_rt = 0
    /\ dreq_rt = 0
    /\ hres = "none"
    /\ rres = NoPkt
    /\ dres = NoPkt
    /\ attempt_no = 0
    /\ req_state = "none"
    /\ req_host = "none"
    /\ req_dres_at = 0
    /\ req_late = FALSE
    /\ att_dres_at = IdleAttDres
    /\ cev = "absent"
    /\ clock = 0
    /\ inbox = NoDreq
    /\ dreqCur = NoDreq
    /\ dreqLate = NoDreq
    /\ ret = Running
    /\ att_state = IdleAttState
    /\ rin = "none"
    /\ creply = NoSent
    /\ mmode = "resource"
    /\ mpc = "done"
    /\ connected = TRUE
    /\ mcode = NoCode
    /\ console = IdleConsole
    /\ tries = 0
    /\ nudp = 1
    /\ nspec = 1
    /\ upc = "test"
    /\ spc = "test"
    /\ registered = TRUE
    /\ ndel = 0
    /\ rkind = "none"
    /\ rleft = 0
    /\ rpc = "done"
    /\ rsent = 0
    /\ aq = NoPacket
    /\ ap = NoPacket
    /\ ares = "none"
    /\ xpkt = NoArrival
    /\ xerr = "unset"

SpecNoRes == InitNoRes /\ [][NoResNext]_vars

\* C38: a node with IS_RESOURCE false never acts as a provider: it creates
\* no provider request, no reserve_resources call of it succeeds and it
\* starts no executor, for any CoS and in both modes.
C38_NonResourceNeverProvides ==
    ~isResource =>
        \A r \in PReqs : pst[r] = "none" /\ nres[r] = 0 /\ nexec[r] = 0

-----------------------------------------------------------------------------
(* make_reply up to the point where a branch has looked up what it needs:   *)
(* the lookups that raise.  The packet comes with what the registries hold  *)
(* for its req_id: entry is requests.get(req_id) ("placeholder": the key is *)
(* there with value None, as for '_' and for the ids loaded from the        *)
(* database), mystate and attOpen describe that Request, prov is the state  *)
(* of the provider-side entry ("none": no entry).                           *)

Arrivals ==
    [state : ProtoStates, fromOrch : BOOLEAN,
     entry : {"absent", "placeholder", "request"},
     mystate : {"HREQ", "DRES", "FAIL"}, attOpen : BOOLEAN,
     cosKnown : BOOLEAN, prov : {"none", "HRES", "RRES"}]

\* broadcast mode: the first error make_reply raises on x, "none" if none
FirstErrorBcst(x) ==
    CASE x.state = "HREQ" /\ isResource /\ x.prov \in {"none", "HRES"}
              /\ ~x.cosKnown -> "KeyError"
      [] x.state = "HRES" /\ x.entry = "request"
              /\ x.mystate \notin {"DRES", "FAIL"} /\ ~x.attOpen -> "KeyError"
      [] x.state = "RRES" /\ x.entry = "request" /\ ~HasField("host") ->
              "AttributeError"
      [] OTHER -> "none"

\* orchestrator mode: the first error make_reply raises on x
FirstErrorOrch(x) ==
    CASE x.state = "RREQ" /\ x.fromOrch /\ x.prov = "none" /\ ~x.cosKnown ->
              "KeyError"
      [] x.state = "DRES" /\ x.entry = "placeholder" -> "AttributeError"
      [] x.state = "DRES" /\ x.entry = "request" /\ x.mystate # "DRES"
              /\ ~x.attOpen -> "KeyError"
      [] OTHER -> "none"

FirstError(cls, x) == IF cls = "BCST" THEN FirstErrorBcst(x)
                      ELSE FirstErrorOrch(x)

\* the answering machine calls make_reply on the packet
MakeReplyLookups ==
    /\ xerr = "unset"
    /\ xerr' = FirstError(mode, xpkt)
    /\ UNCHANGED <<xpkt, coreVars, retryVars, ansVars>>

ErrNext == MakeReplyLookups

InitErr ==
    /\ reserved = Zero3
    /\ limitPct = 50
    /\ simOn = TRUE
    /\ measured = TOTAL
    /\ lockHolder = 0
    /\ lpc = IdleLpc
    /\ lcos = IdleLcos
    /\ lok = IdleLok
    /\ requests = IdleRequests
    /\ gpc = IdleGpc
    /\ gid = IdleGid
    /\ gclobber = {}
    /\ mode \in {"BCST", "ORCH"}
    /\ isResource \in BOOLEAN
    /\ pcos = IdlePcos
    /\ pst = IdlePst
    /\ pfreed = IdlePfreed
    /\ pthread = IdlePthread
    /\ presult = IdlePthread
    /\ pev = IdlePev
    /\ rr = IdleThreads
    /\ rd = IdleThreads
    /\ preply = "none"
    /\ budget = 0
    /\ nres = IdleCount
    /\ nfree = IdleCount
    /\ nexec = IdleCount
    /\ cpc = "h_test"
    /\ hreq_rt = PROTO_RETRIES
    /\ rreq_rt = 0
    /\ dreq_rt = 0
    /\ hres = "none"
    /\ rres = NoPkt
    /\ dres = NoPkt
    /\ attempt_no = 0
    /\ req_state = "none"
    /\ req_host = "none"
    /\ req_dres_at = 0
    /\ req_late = FALSE
    /\ att_dres_at = IdleAttDres
    /\ cev = "absent"
    /\ clock = 0
    /\ inbox = NoDreq
    /\ dreqCur = NoDreq
    /\ dreqLate = NoDreq
    /\ ret = Running
    /\ att_state = IdleAttState
    /\ rin = "none"
    /\ creply = NoSent
    /\ mmode = "resource"
    /\ mpc = "done"
    /\ connected = TRUE
    /\ mcode = NoCode
    /\ console = IdleConsole
    /\ tries = 0
    /\ nudp = 1
    /\ nspec = 1
    /\ upc = "test"
    /\ spc = "test"
    /\ registered = TRUE
    /\ ndel = 0
    /\ rkind = "none"
    /\ rleft = 0
    /\ rpc = "done"
    /\ rsent = 0
    /\ aq = NoPacket
    /\ ap = NoPacket
    /\ ares = "none"
    /\ xpkt \in Arrivals
    /\ xerr = "unset"

SpecErr == InitErr /\ [][ErrNext]_vars

\* C32: no packet that passes is_request makes make_reply raise an error.
C32_MakeReplyNeverRaises == xerr \in {"unset", "none"}

\* both periodic loops are over, or were never started
LoopsOver == upc \in {"off", "end"} /\ spc \in {"off", "end"}

\* a loop begins a new iteration
NewIteration ==
    \/ upc = "test" /\ upc' = "send"
    \/ spc = "test" /\ spc' = "sleep"

C39_NoAddAfterDelete ==
    [][(ndel > 0 /\ ~registered) =>
           ~(\E o \in {Success, Exists} \cup FailCodes : SpecReAdd(o))]_vars

====
